---- MODULE Spec2Model ----
(***************************************************************************)
(* x402 payment gateway (src/middleware.ts) as a state machine.            *)
(*                                                                         *)
(* One request to the Next.js middleware is followed from its arrival to   *)
(* its single response.  The Verifier and the Settler are reached over     *)
(* HTTP (fetch), so their answers are inputs of the model: an OK response  *)
(* with a JSON body, a non-OK response, or a failed request.               *)
(*                                                                         *)
(* Text that the code measures, cuts or parses (error messages, amounts,   *)
(* token identifiers) is a sequence of one-character strings.  In a        *)
(* record, a field the JavaScript object does not have is the empty        *)
(* sequence, the empty string or 0: the code reads these fields only       *)
(* through truthiness tests (||, &&, !), which cannot tell them apart.     *)
(***************************************************************************)
EXTENDS Integers, Sequences, FiniteSets, TLC

VARIABLES
    pc,            \* position of the request in the middleware pipeline
    request,       \* the inbound request: pathname and the two payment headers
    extracted,     \* result of extractPayment: payload and details
    verifyRequest, \* body POSTed to <facilitator>/verify
    verifyResponse, \* what the fetch of /verify came back with
    verification,  \* the verification record the middleware works with
    settleRequest, \* body POSTed to <facilitator>/settle
    settleResponse, \* what the fetch of /settle came back with
    settlement,    \* the settlement record the middleware works with
    response,      \* the response the middleware returned
    verifyCalls,   \* number of fetches to /verify
    settleCalls,   \* number of fetches to /settle
    responses,     \* number of responses returned (or exceptions raised)
    downstream,    \* the protected route handler's run on a forwarded request
    history,       \* the requests the middleware has answered, oldest first
    signedHeader,  \* SDK: the last output of createPaymentHeader
    presented,     \* SDK: the payload and requirements handed to the facilitator
    tampered,      \* SDK: the fields changed since signing, in order
    chainState,    \* SDK: the chain as the facilitator's calls meet it
    verifyLog,     \* SDK: the calls of verifyX402Payment, oldest first
    settleLog,     \* the calls of the two settleX402Payment, oldest first
    ledger,        \* the transfers the settlers have broadcast, oldest first
    settling,      \* the settler's call that waits for its transaction
    axios,         \* client: a request through the x402 response interceptor
    walletCache,   \* application: the module variables of lib/evm/wallet
    concurrent,    \* SDK settler: calls in progress at once, pool and blocks
    framing        \* application: one payload before its verifier and settler

gatewayVars ==
    <<pc, request, extracted, verifyRequest, verifyResponse, verification,
      settleRequest, settleResponse, settlement, response, verifyCalls,
      settleCalls, responses, downstream, history>>

sdkVars ==
    <<signedHeader, presented, tampered, chainState, verifyLog, settleLog,
      ledger, settling>>

standaloneVars == <<axios, walletCache, concurrent, framing>>

vars == <<gatewayVars, sdkVars, standaloneVars>>

----------------------------------------------------------------------------
(* Bounds *)

\* The route price, 10^18 in the source, scaled to a small integer.
PolicyAmount == 10

\* How far the long error messages exceed the length cap.
LongExcess == 1

----------------------------------------------------------------------------
(* Text helpers *)

LF == "\n"

Digits == <<"0","1","2","3","4","5","6","7","8","9">>

IsDigit(c) == \E i \in 1..10 : Digits[i] = c

DigitVal(c) == (CHOOSE i \in 1..10 : Digits[i] = c) - 1

RECURSIVE NatToStr(_)
\* Decimal text of a natural number (String(n)).
NatToStr(n) ==
    IF n < 10 THEN <<Digits[n + 1]>>
    ELSE Append(NatToStr(n \div 10), Digits[(n % 10) + 1])

RECURSIVE DecimalValue(_)
DecimalValue(s) ==
    IF s = <<>> THEN 0
    ELSE 10 * DecimalValue(SubSeq(s, 1, Len(s) - 1)) + DigitVal(s[Len(s)])

\* BigInt(text): the empty text is 0n, an optional sign followed by decimal
\* digits is that integer, any other text of the model's alphabet (letters,
\* a decimal point) raises SyntaxError (threw = TRUE).
BigInt(s) ==
    IF s = <<>> THEN [threw |-> FALSE, value |-> 0]
    ELSE IF \A i \in 1..Len(s) : IsDigit(s[i])
         THEN [threw |-> FALSE, value |-> DecimalValue(s)]
    ELSE IF /\ Len(s) > 1
            /\ s[1] = "-"
            /\ \A i \in 2..Len(s) : IsDigit(s[i])
         THEN [threw |-> FALSE, value |-> 0 - DecimalValue(SubSeq(s, 2, Len(s)))]
    ELSE [threw |-> TRUE, value |-> 0]

UpperCase ==
    <<"A","B","C","D","E","F","G","H","I","J","K","L","M",
      "N","O","P","Q","R","S","T","U","V","W","X","Y","Z">>
LowerCase ==
    <<"a","b","c","d","e","f","g","h","i","j","k","l","m",
      "n","o","p","q","r","s","t","u","v","w","x","y","z">>

toLowerCaseChar(c) ==
    IF \E i \in 1..Len(UpperCase) : UpperCase[i] = c
    THEN LowerCase[CHOOSE i \in 1..Len(UpperCase) : UpperCase[i] = c]
    ELSE c

\* String.prototype.toLowerCase
toLowerCase(s) == [i \in 1..Len(s) |-> toLowerCaseChar(s[i])]

\* String.prototype.substring(0, n)
substring0(s, n) == IF Len(s) <= n THEN s ELSE SubSeq(s, 1, n)

\* String.prototype.replace(/\n/g, ' ')
replaceNewlines(s) == [i \in 1..Len(s) |-> IF s[i] = LF THEN " " ELSE s[i]]

\* a || b on text
OrElse(a, b) == IF a # <<>> THEN a ELSE b

\* a || b on JavaScript strings kept as TLA+ strings
OrElseStr(a, b) == IF a # "" THEN a ELSE b

----------------------------------------------------------------------------
(* Configuration *)

MaxErrorLength == 200

NATIVE == <<"n","a","t","i","v","e">>

env ==
    [ NETWORK         |-> "polkadot-hub-testnet",
      FACILITATOR_URL |-> "/api/facilitator",
      TOKEN_ADDRESS   |-> NATIVE ]

SellerAddress == "0xSELLER"

\* getSellerAddress(network): address of the wallet built from SELLER_PRIVATE_KEY
getSellerAddress(network) == SellerAddress

PROTECTED_ROUTES == {"/api/protected/weather"}

\* token is <<>> where the route configures none
ROUTE_PAYMENT_CONFIG ==
    [ p \in PROTECTED_ROUTES |->
        [ amount      |-> NatToStr(PolicyAmount),
          token       |-> <<>>,
          description |-> "Access to weather API endpoint" ] ]

DefaultPaymentConfig ==
    [ amount      |-> NatToStr(PolicyAmount),
      token       |-> <<>>,
      description |-> "Access to this resource requires payment" ]

\* The model's paths either are a protected route or do not start with one.
isProtectedRoute(pathname) == pathname \in PROTECTED_ROUTES

paymentConfigFor(pathname) ==
    IF pathname \in DOMAIN ROUTE_PAYMENT_CONFIG
    THEN ROUTE_PAYMENT_CONFIG[pathname]
    ELSE DefaultPaymentConfig

----------------------------------------------------------------------------
(* Requests *)

\* A payment payload as the middleware holds it after extraction.
NullPayload == [t |-> "null"]

StringPayload(str) == [t |-> "string", s |-> str]

\* An object payload: x402Version 0 and payload "" stand for missing fields.
ObjectPayload(version, inner) ==
    [t |-> "object", x402Version |-> version, payload |-> inner]

\* JavaScript truthiness of a payload value
TruthyPayload(p) ==
    \/ p.t = "object"
    \/ p.t = "string" /\ p.s # ""

\* PaymentRequirements as restated by the client.  present = FALSE is null.
NoDetails ==
    [ present |-> FALSE, x402Version |-> 0, scheme |-> "", network |-> "",
      maxAmountRequired |-> <<>>, payTo |-> "", asset |-> <<>> ]

Details(version, scheme, network, amount, payTo, asset) ==
    [ present |-> TRUE, x402Version |-> version, scheme |-> scheme,
      network |-> network, maxAmountRequired |-> amount, payTo |-> payTo,
      asset |-> asset ]

EmptyDetails == Details(0, "", "", <<>>, "", <<>>)

ClientDetails ==
    { EmptyDetails,
      Details(1, "exact", env.NETWORK, NatToStr(PolicyAmount), SellerAddress, NATIVE),
      Details(1, "exact", env.NETWORK, NatToStr(PolicyAmount - 1), "0xATTACKER", NATIVE) }

\* The X-402-Payment-Details header: absent, not JSON, or a JSON object.
DetailsHeaders ==
    { [t |-> "absent"], [t |-> "malformed"] }
        \cup { [t |-> "object", details |-> d] : d \in ClientDetails }

\* What JSON.parse yields for the decoded X-402-Payment header.
ParsedObject(payload, details, version, scheme, network, amount, payTo, asset) ==
    [ t |-> "object", payload |-> payload, details |-> details,
      x402Version |-> version, scheme |-> scheme, network |-> network,
      maxAmountRequired |-> amount, payTo |-> payTo, asset |-> asset ]

ParsedString(str) == [t |-> "string", s |-> str]

\* null, a number, an array: a value with no payload or x402Version
ParsedOther == [t |-> "other"]

\* JSON.parse throws
Malformed == [t |-> "malformed"]

SignedHex == "0xSIGNED"

HeaderObjects ==
    \* {payload, details} wrappers
    { ParsedObject(p, d, 0, "", "", <<>>, "", <<>>) :
         p \in { StringPayload(SignedHex), ObjectPayload(1, SignedHex),
                 ObjectPayload(0, "") },
         d \in ClientDetails }
    \cup
    \* the output of the x402 SDK's signPaymentHeader
    { ParsedObject(StringPayload(SignedHex), NoDetails, 1, "exact", env.NETWORK,
                   a, pt, NATIVE) :
         a \in { <<>>, NatToStr(PolicyAmount - 1) },
         pt \in { "", "0xATTACKER" } }
    \cup
    \* an object that is neither
    { ParsedObject(NullPayload, NoDetails, 0, "", "", <<>>, "", <<>>) }

\* The X-402-Payment header.  framing "hex" starts with 0x, "json" starts
\* with {, "base64" is anything else; content is what JSON.parse makes of
\* the decoded text.  A text starting with 0x is never JSON.
PaymentHeaders ==
    { [framing |-> "absent", content |-> Malformed],
      [framing |-> "hex", content |-> Malformed],
      [framing |-> "json", content |-> Malformed],
      [framing |-> "base64", content |-> Malformed],
      [framing |-> "base64", content |-> ParsedOther],
      [framing |-> "base64", content |-> ParsedString(SignedHex)],
      [framing |-> "base64", content |-> ParsedString("")] }
    \cup { [framing |-> f, content |-> o] :
               f \in {"json", "base64"}, o \in HeaderObjects }

\* The text of a header in hex framing.
HeaderText(paymentHeader) == SignedHex

Pathnames == PROTECTED_ROUTES \cup {"/api/facilitator/supported"}

DefaultDetails == Details(1, "exact", env.NETWORK, <<>>, "", <<>>)

\* paymentDetails after the try/catch around JSON.parse(detailsHeader)
parseDetailsHeader(detailsHeader) ==
    IF detailsHeader.t = "object" THEN detailsHeader.details ELSE NoDetails

\* extractPayment(request)
extractPayment(paymentHeader, detailsHeader) ==
    LET paymentDetails == parseDetailsHeader(detailsHeader)
        orDefault == IF paymentDetails.present THEN paymentDetails
                     ELSE DefaultDetails
        parsed == paymentHeader.content
        none == [payload |-> NullPayload, details |-> NoDetails]
    IN  IF paymentHeader.framing = "absent" THEN none
        ELSE IF parsed.t = "malformed" \/ parsed.t = "other"
             \* JSON.parse threw, or reading a property of null did
             THEN IF paymentHeader.framing = "hex" /\ parsed.t = "malformed"
                  THEN [ payload |-> StringPayload(HeaderText(paymentHeader)),
                         details |-> orDefault ]
                  ELSE none
        ELSE IF parsed.t = "string"
             THEN [payload |-> StringPayload(parsed.s), details |-> orDefault]
        ELSE IF TruthyPayload(parsed.payload) /\ parsed.details.present
             THEN [payload |-> parsed.payload, details |-> parsed.details]
        ELSE IF parsed.x402Version # 0 /\ TruthyPayload(parsed.payload)
             THEN [ payload |-> parsed.payload,
                    details |-> Details(parsed.x402Version, parsed.scheme,
                                        parsed.network, parsed.maxAmountRequired,
                                        parsed.payTo, parsed.asset) ]
        ELSE none

----------------------------------------------------------------------------
(* Responses *)

NoResponse == [kind |-> "none"]

\* The fields every 402 body of the middleware carries.
ChallengeFields(pathname, config, asset) ==
    [ maxAmountRequired |-> config.amount,
      resource          |-> pathname,
      payTo             |-> getSellerAddress(env.NETWORK),
      asset             |-> asset,
      network           |-> env.NETWORK,
      x402Version       |-> 1,
      scheme            |-> "exact",
      facilitator       |-> env.FACILITATOR_URL,
      mimeType          |-> "application/json",
      maxTimeoutSeconds |-> 300 ]

\* create402Response answering with the facilitator wallet's address
\* (getWalletAddress) instead of the seller's.
create402Response_facilitatorPayTo(pathname, config) ==
    [ kind    |-> "json",
      status  |-> 402,
      body    |-> [ ChallengeFields(pathname, config,
                                    OrElse(config.token, env.TOKEN_ADDRESS))
                    EXCEPT !.payTo = "0xFACILITATOR" ]
                  @@ [description |-> config.description],
      headers |-> [ XVersion |-> "1", XScheme |-> "exact",
                    XNetwork |-> env.NETWORK ] ]

\* create402Response(request, config)
create402Response(pathname, config) ==
    [ kind    |-> "json",
      status  |-> 402,
      body    |-> ChallengeFields(pathname, config,
                                  OrElse(config.token, env.TOKEN_ADDRESS))
                  @@ [description |-> config.description],
      headers |-> [ XVersion |-> "1", XScheme |-> "exact",
                    XNetwork |-> env.NETWORK ] ]

\* NextResponse.next() of an unprotected path
EmptyHeaders == [n \in {} |-> ""]

PassThroughResponse == [kind |-> "next", headers |-> EmptyHeaders]

\* An exception left the middleware: the framework answers 500.
UncaughtException(name) == [kind |-> "exception", status |-> 500, error |-> name]

\* fullPaymentRequirements: the client's details win over the route's values
fullPaymentRequirements(details, pathname, config) ==
    [ x402Version       |-> IF details.x402Version # 0 THEN details.x402Version ELSE 1,
      scheme            |-> OrElseStr(details.scheme, "exact"),
      network           |-> OrElseStr(details.network, env.NETWORK),
      maxAmountRequired |-> OrElse(details.maxAmountRequired, config.amount),
      resource          |-> pathname,
      payTo             |-> OrElseStr(details.payTo, getSellerAddress(env.NETWORK)),
      asset             |-> OrElse(details.asset,
                                   OrElse(config.token, env.TOKEN_ADDRESS)),
      maxTimeoutSeconds |-> 300 ]

\* payloadForVerification / payloadForSettlement: the payload as a string
payloadString(payload, requirements) ==
    IF payload.t = "string" THEN payload.s
    ELSE IF payload.x402Version # 0 /\ payload.payload # ""
         THEN [stringified |-> payload]
    ELSE [stringified |->
            [ x402Version |-> requirements.x402Version,
              scheme      |-> requirements.scheme,
              network     |-> requirements.network,
              payload     |-> payload ]]

NoCall == [sent |-> FALSE]

FacilitatorCall(url, payload, requirements) ==
    [sent |-> TRUE, url |-> url, payload |-> payload, details |-> requirements]

NoAnswer == [http |-> "none"]

NoVerification == [received |-> FALSE]

NoSettlement == [received |-> FALSE]

----------------------------------------------------------------------------
(* The middleware *)

\* Nothing has been signed, presented or called on the SDK side.
SdkIdle ==
    /\ signedHeader = [signed |-> FALSE]
    /\ presented = [present |-> FALSE]
    /\ tampered = <<>>
    /\ chainState = [ connect |-> "ok", query |-> "ok", balance |-> 0,
                      disconnect |-> "ok" ]
    /\ verifyLog = <<>>
    /\ settleLog = <<>>
    /\ ledger = <<>>
    /\ settling = [active |-> FALSE]

\* error.response.data of a 402 answer, as far as the interceptor reads it:
\* "" is a field that is not there, present is false for an empty body.
ResponseData(network, payTo, maxAmountRequired, resource) ==
    [present |-> TRUE, network |-> network, payTo |-> payTo,
     maxAmountRequired |-> maxAmountRequired, resource |-> resource]

NoResponseData ==
    [present |-> FALSE, network |-> "", payTo |-> "",
     maxAmountRequired |-> "", resource |-> ""]

\* What the server answers; status 0 is a request that got no answer
\* (error.response is undefined).
AxiosResponse(status, data, settlementTx) ==
    [status |-> status, data |-> data,
     headers |-> [x_settlement_tx |-> settlementTx]]

NoAxiosResponse == AxiosResponse(0, NoResponseData, "")

NoAxiosError ==
    [name |-> "", message |-> <<>>, response |-> NoAxiosResponse]

\* What the promise of a request or of one handler is settled with.
Resolved(res) ==
    [kind |-> "resolved", response |-> res, error |-> NoAxiosError]

Rejected(error) ==
    [kind |-> "rejected", response |-> NoAxiosResponse, error |-> error]

NoResult ==
    [kind |-> "none", response |-> NoAxiosResponse, error |-> NoAxiosError]

\* How many calls of the SDK's settler run at once.
ConcurrentCalls == 3

\* An ethers provider: the network identifier it was created for and which
\* of the providers created so far it is. null is a provider that is not.
Provider(createdFor, serial) ==
    [exists |-> TRUE, createdFor |-> createdFor, serial |-> serial]

NoProvider == [exists |-> FALSE, createdFor |-> <<>>, serial |-> 0]

\* An ethers wallet: whose key it holds and the provider it is connected to.
EthersWallet(key, provider) ==
    [exists |-> TRUE, key |-> key, provider |-> provider]

NoEthersWallet == [exists |-> FALSE, key |-> "", provider |-> NoProvider]

\* What the last call of the wallet module was asked, what it found cached
\* and what it gave back.
WalletReturn(by, networkId, previous, provider, wallet) ==
    [by |-> by, networkId |-> networkId, previous |-> previous,
     provider |-> provider, wallet |-> wallet]

NothingReturned == WalletReturn("", <<>>, NoProvider, NoProvider, NoEthersWallet)

\* No request has gone through the interceptor, and the wallet module is
\* as it is loaded.
ClientIdle ==
    /\ axios = [pc |-> "Idle", callbacks |-> {},
                originalRequest |-> [_retry |-> FALSE, headers |-> {}],
                paymentRequirements |-> NoResponseData,
                depth |-> 0, created |-> 0, retries |-> 0,
                events |-> <<>>, result |-> NoResult]
    /\ walletCache = [wallet |-> NoEthersWallet, provider |-> NoProvider,
                      currentNetwork |-> <<>>, created |-> 0, calls |-> 0,
                      returned |-> NothingReturned]
    /\ concurrent = [calls |-> [c \in 1..ConcurrentCalls |->
                                   [pc |-> "idle", nonce |-> 0]],
                     pool |-> {}, blocks |-> <<>>]
    /\ framing = [pc |-> "idle"]

Init ==
    /\ pc = "Unauthenticated"
    /\ request = [received |-> FALSE]
    /\ extracted = [payload |-> NullPayload, details |-> NoDetails]
    /\ verifyRequest = NoCall
    /\ verifyResponse = NoAnswer
    /\ verification = NoVerification
    /\ settleRequest = NoCall
    /\ settleResponse = NoAnswer
    /\ settlement = NoSettlement
    /\ response = NoResponse
    /\ verifyCalls = 0
    /\ settleCalls = 0
    /\ responses = 0
    /\ downstream = [received |-> FALSE]
    /\ history = <<>>
    /\ SdkIdle
    /\ ClientIdle

\* middleware(request), up to the first await of a facilitator call
middlewareEntry(pathname, paymentHeader, detailsHeader) ==
    LET config == paymentConfigFor(pathname)
        ex == extractPayment(paymentHeader, detailsHeader)
        req == fullPaymentRequirements(ex.details, pathname, config)
    IN  /\ pc = "Unauthenticated"
        /\ UNCHANGED <<downstream, history, sdkVars,
                       standaloneVars>>
        /\ ~request.received
        /\ request' = [ received |-> TRUE, pathname |-> pathname,
                        paymentHeader |-> paymentHeader,
                        detailsHeader |-> detailsHeader ]
        /\ IF ~isProtectedRoute(pathname)
           THEN /\ pc' = "PassThrough"
                /\ response' = PassThroughResponse
                /\ responses' = responses + 1
                /\ UNCHANGED <<extracted, verifyRequest, verifyCalls>>
           ELSE IF ~TruthyPayload(ex.payload) \/ ~ex.details.present
           THEN /\ pc' = "PaymentRequired"
                /\ extracted' = ex
                /\ response' = create402Response(pathname, config)
                /\ responses' = responses + 1
                /\ UNCHANGED <<verifyRequest, verifyCalls>>
           ELSE /\ pc' = "Verifying"
                /\ extracted' = ex
                /\ verifyRequest' =
                      FacilitatorCall("/api/facilitator/verify",
                                      payloadString(ex.payload, req), req)
                /\ verifyCalls' = verifyCalls + 1
                /\ UNCHANGED <<response, responses>>
        /\ UNCHANGED <<verifyResponse, verification, settleRequest,
                       settleResponse, settlement, settleCalls>>

----------------------------------------------------------------------------
(* Message literals of the middleware *)

INVALID_PAYMENT ==
    <<"I","n","v","a","l","i","d"," ","p","a","y","m","e","n","t">>

VERIFICATION_REQUEST_FAILED ==
    <<"V","e","r","i","f","i","c","a","t","i","o","n"," ","r","e","q","u","e","s","t"," ","f","a","i","l","e","d">>

VERIFICATION_FAILED_PREFIX ==
    <<"V","e","r","i","f","i","c","a","t","i","o","n"," ","f","a","i","l","e","d",":"," ">>

SETTLEMENT_FAILED ==
    <<"S","e","t","t","l","e","m","e","n","t"," ","f","a","i","l","e","d">>

SETTLEMENT_REQUEST_FAILED ==
    <<"S","e","t","t","l","e","m","e","n","t"," ","r","e","q","u","e","s","t"," ","f","a","i","l","e","d">>

SETTLEMENT_FAILED_PREFIX ==
    <<"S","e","t","t","l","e","m","e","n","t"," ","f","a","i","l","e","d",":"," ">>

INSUFFICIENT_PAYMENT ==
    <<"I","n","s","u","f","f","i","c","i","e","n","t"," ","p","a","y","m","e","n","t">>

INVALID_TOKEN ==
    <<"I","n","v","a","l","i","d"," ","t","o","k","e","n">>

----------------------------------------------------------------------------
(* Answers of the facilitator endpoints *)

ShortError == <<"e","x","p","i","r","e","d">>

MultiLineError == <<"a", LF, "b">>

\* longer than the cap, with line breaks before and after it
LongError ==
    [i \in 1..(MaxErrorLength + LongExcess) |->
        IF i = 2 \/ i = MaxErrorLength + LongExcess THEN LF ELSE "x"]

ErrorTexts == { <<>>, ShortError, MultiLineError, LongError }

StatusTexts == { <<"B","a","d">> }

TOKEN_CONTRACT == <<"0","x","A","b">>

NATIVE_UPPER == <<"N","A","T","I","V","E">>

AmountTexts ==
    { <<>>, NatToStr(PolicyAmount - 1), NatToStr(PolicyAmount),
      NatToStr(PolicyAmount + 1), <<"1",".","5">> }

TokenTexts == { <<>>, NATIVE, NATIVE_UPPER, TOKEN_CONTRACT }

\* verification.details; present = FALSE is a response without the record
NoVerifiedDetails == [present |-> FALSE, amount |-> <<>>, token |-> <<>>]

VerifiedDetails ==
    { NoVerifiedDetails }
        \cup { [present |-> TRUE, amount |-> a, token |-> t] :
                   a \in AmountTexts, t \in TokenTexts }

\* What fetch(verifyUrl) can come back with.
VerifierAnswers ==
    { [http |-> "ok", valid |-> FALSE, error |-> e, details |-> NoVerifiedDetails] :
         e \in ErrorTexts }
    \cup
    { [http |-> "ok", valid |-> TRUE, error |-> <<>>, details |-> d] :
         d \in VerifiedDetails }
    \cup
    { [http |-> "notOk", error |-> e, statusText |-> st] :
         e \in { <<>>, ShortError }, st \in StatusTexts }
    \cup
    { [http |-> "failed", isError |-> TRUE, message |-> e] : e \in ErrorTexts }
    \cup
    { [http |-> "failed", isError |-> FALSE, message |-> <<>>] }

\* What fetch(settleUrl) can come back with.
SettlerAnswers ==
    { [http |-> "ok", success |-> TRUE, transactionHash |-> tx, error |-> <<>>] :
         tx \in { "0xTXHASH", "" } }
    \cup
    { [http |-> "ok", success |-> FALSE, transactionHash |-> "", error |-> e] :
         e \in ErrorTexts }
    \cup
    { [http |-> "notOk", error |-> e, statusText |-> st] :
         e \in { <<>>, MultiLineError }, st \in StatusTexts }
    \cup
    { [http |-> "failed", isError |-> TRUE, message |-> e] :
         e \in { ShortError, LongError } }
    \cup
    { [http |-> "failed", isError |-> FALSE, message |-> <<>>] }

\* The verification record built from the answer of /verify.
verificationOf(r) ==
    IF r.http = "ok"
    THEN [ received |-> TRUE, valid |-> r.valid, error |-> r.error,
           details |-> r.details ]
    ELSE IF r.http = "notOk"
    THEN [ received |-> TRUE, valid |-> FALSE,
           error |-> OrElse(r.error, VERIFICATION_FAILED_PREFIX \o r.statusText),
           details |-> NoVerifiedDetails ]
    ELSE [ received |-> TRUE, valid |-> FALSE,
           error |-> IF r.isError THEN r.message ELSE VERIFICATION_REQUEST_FAILED,
           details |-> NoVerifiedDetails ]

\* settlementOf without the settleResponse.ok test: the body of a non-OK
\* answer is read as a settlement.
settlementOf_ignoresStatus(r) ==
    IF r.http = "ok"
    THEN [ received |-> TRUE, success |-> r.success,
           transactionHash |-> r.transactionHash, error |-> r.error ]
    ELSE IF r.http = "notOk"
    THEN [ received |-> TRUE, success |-> r.error = <<>>, transactionHash |-> "",
           error |-> r.error ]
    ELSE [ received |-> TRUE, success |-> FALSE, transactionHash |-> "",
           error |-> IF r.isError THEN r.message ELSE SETTLEMENT_REQUEST_FAILED ]

\* The settlement record built from the answer of /settle.
settlementOf(r) ==
    IF r.http = "ok"
    THEN [ received |-> TRUE, success |-> r.success,
           transactionHash |-> r.transactionHash, error |-> r.error ]
    ELSE IF r.http = "notOk"
    THEN [ received |-> TRUE, success |-> FALSE, transactionHash |-> "",
           error |-> OrElse(r.error, SETTLEMENT_FAILED_PREFIX \o r.statusText) ]
    ELSE [ received |-> TRUE, success |-> FALSE, transactionHash |-> "",
           error |-> IF r.isError THEN r.message ELSE SETTLEMENT_REQUEST_FAILED ]

\* errorMessage.replace(/\n/g, ' ').substring(0, 200)
sanitizeError(errorMessage) ==
    substring0(replaceNewlines(errorMessage), MaxErrorLength)

\* The 402 answer to a payment the Verifier rejected.
verificationFailedResponse(pathname, config, v) ==
    LET sanitizedError == sanitizeError(OrElse(v.error, INVALID_PAYMENT))
    IN  [ kind    |-> "json",
          status  |-> 402,
          body    |-> ChallengeFields(pathname, config,
                                      OrElse(config.token, env.TOKEN_ADDRESS))
                      @@ [ error   |-> "Payment verification failed",
                           details |-> sanitizedError ],
          headers |-> [XError |-> sanitizedError] ]

insufficientPaymentResponse(pathname, config, v) ==
    [ kind    |-> "json",
      status  |-> 402,
      body    |-> ChallengeFields(pathname, config,
                                  OrElse(config.token, env.TOKEN_ADDRESS))
                  @@ [ error    |-> "Insufficient payment amount",
                       paid     |-> v.details.amount,
                       required |-> config.amount ],
      headers |-> [XError |-> INSUFFICIENT_PAYMENT] ]

invalidTokenResponse(pathname, config, v) ==
    LET expectedToken == OrElse(config.token, env.TOKEN_ADDRESS)
    IN  [ kind    |-> "json",
          status  |-> 402,
          body    |-> ChallengeFields(pathname, config, expectedToken)
                      @@ [ error    |-> "Invalid payment token",
                           expected |-> expectedToken,
                           received |-> v.details.token ],
          headers |-> [XError |-> INVALID_TOKEN] ]

\* The 402 answer to a settlement that did not succeed.
settlementFailedResponse(pathname, config, st) ==
    [ kind    |-> "json",
      status  |-> 402,
      body    |-> ChallengeFields(pathname, config,
                                  OrElse(config.token, env.TOKEN_ADDRESS))
                  @@ [ error   |-> "Payment settlement failed",
                       details |-> st.error ],
      headers |-> [XError |-> OrElse(st.error, SETTLEMENT_FAILED)] ]

\* NextResponse.next() with the result headers
authorizedResponse(v, st) ==
    [ kind    |-> "next",
      headers |-> [ XPaymentVerified |-> "true",
                    XPaymentAmount   |-> OrElse(v.details.amount, <<"0">>) ]
                  @@ (IF st.transactionHash # ""
                      THEN [ XSettlementTx |-> st.transactionHash,
                             XPaymentResponse |->
                                [ transactionHash |-> st.transactionHash,
                                  settled |-> TRUE ] ]
                      ELSE EmptyHeaders) ]

\* The amount and token checks on a valid verification: what they decide.
policyOutcome(v, config) ==
    LET paidAmount == BigInt(OrElse(v.details.amount, <<"0">>))
        requiredAmount == BigInt(config.amount)
        expectedToken == OrElse(config.token, env.TOKEN_ADDRESS)
    IN  IF ~v.details.present THEN "settle"
        ELSE IF paidAmount.threw \/ requiredAmount.threw THEN "throw"
        ELSE IF paidAmount.value < requiredAmount.value THEN "insufficient"
        ELSE IF /\ v.details.token # <<>>
                /\ toLowerCase(v.details.token) # toLowerCase(expectedToken)
             THEN "invalidToken"
        ELSE "settle"

----------------------------------------------------------------------------
(* The middleware, continued *)

\* verifyReturns without the early return on an invalid verification.
verifyReturns_noValidCheck(r) ==
    /\ pc = "Verifying"
    /\ UNCHANGED <<downstream, history, sdkVars,
                       standaloneVars>>
    /\ verifyResponse' = r
    /\ verification' = verificationOf(r)
    /\ pc' = "AmountPolicyCheck"
    /\ UNCHANGED <<request, extracted, verifyRequest, settleRequest,
                   settleResponse, settlement, response, responses,
                   verifyCalls, settleCalls>>

\* The await of fetch(verifyUrl) completes.
verifyReturns(r) ==
    LET v == verificationOf(r)
        config == paymentConfigFor(request.pathname)
    IN  /\ pc = "Verifying"
        /\ UNCHANGED <<downstream, history, sdkVars,
                       standaloneVars>>
        /\ verifyResponse' = r
        /\ verification' = v
        /\ IF ~v.valid
           THEN /\ pc' = "PaymentRequired"
                /\ response' = verificationFailedResponse(request.pathname, config, v)
                /\ responses' = responses + 1
           ELSE /\ pc' = "AmountPolicyCheck"
                /\ UNCHANGED <<response, responses>>
        /\ UNCHANGED <<request, extracted, verifyRequest, settleRequest,
                       settleResponse, settlement, verifyCalls, settleCalls>>

\* amountPolicyCheck with a record of settled payloads: a payload that an
\* earlier request settled is answered 402 and not settled again.
amountPolicyCheck_oncePerPayload ==
    LET config == paymentConfigFor(request.pathname)
        outcome == policyOutcome(verification, config)
        req == fullPaymentRequirements(extracted.details, request.pathname, config)
        settledBefore ==
            \E k \in 1..Len(history) :
                /\ history[k].extracted.payload = extracted.payload
                /\ history[k].settlement.received
                /\ history[k].settlement.success
    IN  /\ pc = "AmountPolicyCheck"
        /\ UNCHANGED <<downstream, history, sdkVars,
                       standaloneVars>>
        /\ IF outcome = "settle" /\ ~settledBefore
           THEN /\ pc' = "Settling"
                /\ settleRequest' =
                      FacilitatorCall("/api/facilitator/settle",
                                      payloadString(extracted.payload, req), req)
                /\ settleCalls' = settleCalls + 1
                /\ UNCHANGED <<response, responses>>
           ELSE /\ pc' = IF outcome = "throw" THEN "Failed" ELSE "PaymentRequired"
                /\ response' =
                      IF outcome = "throw" THEN UncaughtException("SyntaxError")
                      ELSE IF outcome = "insufficient"
                      THEN insufficientPaymentResponse(request.pathname, config,
                                                       verification)
                      ELSE invalidTokenResponse(request.pathname, config,
                                                verification)
                /\ responses' = responses + 1
                /\ UNCHANGED <<settleRequest, settleCalls>>
        /\ UNCHANGED <<request, extracted, verifyRequest, verifyResponse,
                       verification, settleResponse, settlement, verifyCalls>>

\* The amount and token checks, then the fetch of /settle.
amountPolicyCheck ==
    LET config == paymentConfigFor(request.pathname)
        outcome == policyOutcome(verification, config)
        req == fullPaymentRequirements(extracted.details, request.pathname, config)
    IN  /\ pc = "AmountPolicyCheck"
        /\ UNCHANGED <<downstream, history, sdkVars,
                       standaloneVars>>
        /\ IF outcome = "settle"
           THEN /\ pc' = "Settling"
                /\ settleRequest' =
                      FacilitatorCall("/api/facilitator/settle",
                                      payloadString(extracted.payload, req), req)
                /\ settleCalls' = settleCalls + 1
                /\ UNCHANGED <<response, responses>>
           ELSE /\ pc' = IF outcome = "throw" THEN "Failed" ELSE "PaymentRequired"
                /\ response' =
                      IF outcome = "throw" THEN UncaughtException("SyntaxError")
                      ELSE IF outcome = "insufficient"
                      THEN insufficientPaymentResponse(request.pathname, config,
                                                       verification)
                      ELSE invalidTokenResponse(request.pathname, config,
                                                verification)
                /\ responses' = responses + 1
                /\ UNCHANGED <<settleRequest, settleCalls>>
        /\ UNCHANGED <<request, extracted, verifyRequest, verifyResponse,
                       verification, settleResponse, settlement, verifyCalls>>

\* settleReturns with one more attempt after a failed settlement.
settleReturns_retries(r) ==
    LET st == settlementOf(r)
        config == paymentConfigFor(request.pathname)
    IN  /\ pc = "Settling"
        /\ UNCHANGED <<downstream, history, sdkVars,
                       standaloneVars>>
        /\ settleResponse' = r
        /\ settlement' = st
        /\ IF ~st.success /\ settleCalls < 2
           THEN /\ pc' = "Settling"
                /\ settleCalls' = settleCalls + 1
                /\ UNCHANGED <<response, responses>>
           ELSE IF ~st.success
           THEN /\ pc' = "PaymentRequired"
                /\ response' = settlementFailedResponse(request.pathname, config, st)
                /\ responses' = responses + 1
                /\ UNCHANGED settleCalls
           ELSE /\ pc' = "Authorized"
                /\ response' = authorizedResponse(verification, st)
                /\ responses' = responses + 1
                /\ UNCHANGED settleCalls
        /\ UNCHANGED <<request, extracted, verifyRequest, verifyResponse,
                       verification, settleRequest, verifyCalls>>

\* The await of fetch(settleUrl) completes.
settleReturns(r) ==
    LET st == settlementOf(r)
        config == paymentConfigFor(request.pathname)
    IN  /\ pc = "Settling"
        /\ UNCHANGED <<downstream, history, sdkVars,
                       standaloneVars>>
        /\ settleResponse' = r
        /\ settlement' = st
        /\ IF ~st.success
           THEN /\ pc' = "PaymentRequired"
                /\ response' = settlementFailedResponse(request.pathname, config, st)
           ELSE /\ pc' = "Authorized"
                /\ response' = authorizedResponse(verification, st)
        /\ responses' = responses + 1
        /\ UNCHANGED <<request, extracted, verifyRequest, verifyResponse,
                       verification, settleRequest, verifyCalls, settleCalls>>

\* The units query values a request can carry; "" is no units parameter.
UnitsValues == { "", "fahrenheit", "kelvin" }

\* The X-Payment-Verified header values a client can send with its request.
ClientMarkerValues == { "", "true" }

\* GET of the protected weather route.  paymentVerified is what
\* request.headers.get('X-Payment-Verified') yields ("" for null).
weatherResponse(units, paymentVerified) ==
    LET u == OrElseStr(units, "celsius")
    IN  IF u # "celsius" /\ u # "fahrenheit"
        THEN [ status |-> 400,
               error  |-> "Invalid units parameter. Use \"celsius\" or \"fahrenheit\"" ]
        ELSE IF paymentVerified # "true"
        THEN [status |-> 402, error |-> "Payment verification required"]
        ELSE [status |-> 200, error |-> ""]

\* The headers of the request the route handler receives after the
\* middleware returned NextResponse.next(): those the client sent.  The
\* headers the middleware set are on the response object.
forwardedRequestHeaders(clientMarker, middlewareResponse) ==
    [XPaymentVerified |-> clientMarker]

\* The route handler runs on the request the middleware forwarded.
weatherGET(units, clientMarker) ==
    LET headers == forwardedRequestHeaders(clientMarker, response)
    IN  /\ pc = "Authorized"
        /\ pc' = "Served"
        /\ downstream' =
              [ received |-> TRUE, units |-> units,
                clientMarker |-> clientMarker,
                paymentVerified |-> headers.XPaymentVerified ]
              @@ weatherResponse(units, headers.XPaymentVerified)
        /\ UNCHANGED <<request, extracted, verifyRequest, verifyResponse,
                       verification, settleRequest, settleResponse,
                       settlement, response, verifyCalls, settleCalls,
                       responses, history, sdkVars,
                       standaloneVars>>

Next ==
    \/ \E units \in UnitsValues, marker \in ClientMarkerValues :
          weatherGET(units, marker)
    \/ \E pathname \in Pathnames, h \in PaymentHeaders, d \in DetailsHeaders :
          middlewareEntry(pathname, h, d)
    \/ \E r \in VerifierAnswers : verifyReturns(r)
    \/ amountPolicyCheck
    \/ \E r \in SettlerAnswers : settleReturns(r)

Spec == Init /\ [][Next]_vars

\* ---- one request after another ----

MaxRequests == 2

\* The middleware has answered (and the route handler, if the request was
\* forwarded, has run); the next request starts the middleware anew.  Its
\* locals start empty: the middleware has no module state that outlives a
\* request.  history is the observer's record of what was answered.
nextRequest ==
    /\ pc \in {"PaymentRequired", "PassThrough", "Failed", "Served"}
    /\ Len(history) < MaxRequests - 1
    /\ history' = Append(history,
           [ request |-> request, extracted |-> extracted,
             verification |-> verification, settleRequest |-> settleRequest,
             settlement |-> settlement, pc |-> pc ])
    /\ pc' = "Unauthenticated"
    /\ request' = [received |-> FALSE]
    /\ extracted' = [payload |-> NullPayload, details |-> NoDetails]
    /\ verifyRequest' = NoCall
    /\ verifyResponse' = NoAnswer
    /\ verification' = NoVerification
    /\ settleRequest' = NoCall
    /\ settleResponse' = NoAnswer
    /\ settlement' = NoSettlement
    /\ response' = NoResponse
    /\ verifyCalls' = 0
    /\ settleCalls' = 0
    /\ responses' = 0
    /\ downstream' = [received |-> FALSE]
    /\ UNCHANGED <<sdkVars, standaloneVars>>

\* The requests of a client that pays, and of one that replays what it
\* paid with: no payment header, or the signed payload with its details.
ReplayHeaders ==
    { h \in PaymentHeaders :
        \/ h.framing = "absent"
        \/ /\ h.framing = "base64"
           /\ h.content =
                 ParsedObject(StringPayload(SignedHex),
                     Details(1, "exact", env.NETWORK, NatToStr(PolicyAmount),
                             SellerAddress, NATIVE),
                     0, "", "", <<>>, "", <<>>) }

ReplayVerifierAnswers ==
    { r \in VerifierAnswers :
        /\ r.http = "ok"
        /\ r.error \in {<<>>, ShortError}
        /\ r.details.token = <<>>
        /\ r.details.amount \in {<<>>, NatToStr(PolicyAmount),
                                 NatToStr(PolicyAmount - 1)} }

ReplaySettlerAnswers ==
    { r \in SettlerAnswers :
        /\ r.http = "ok"
        /\ r.error \in {<<>>, ShortError}
        /\ r.success => r.transactionHash # "" }

ReplayNext ==
    \/ \E units \in UnitsValues, marker \in ClientMarkerValues :
          weatherGET(units, marker)
    \/ \E pathname \in PROTECTED_ROUTES, h \in ReplayHeaders :
          middlewareEntry(pathname, h, [t |-> "absent"])
    \/ \E r \in ReplayVerifierAnswers : verifyReturns(r)
    \/ amountPolicyCheck
    \/ \E r \in ReplaySettlerAnswers : settleReturns(r)
    \/ nextRequest

ReplaySpec == Init /\ [][ReplayNext]_vars

\* Each await completes and the synchronous code after it runs.
FairSpec == Spec /\ WF_vars(Next)

----------------------------------------------------------------------------
(* Properties of the gateway *)

ProtectedRequest == request.received /\ isProtectedRoute(request.pathname)

Finished ==
    pc \in {"PaymentRequired", "Authorized", "PassThrough", "Failed", "Served"}

Is402 == response.kind = "json" /\ response.status = 402

\* The request was forwarded with the payment-verified marker.
IsAuthorizedForward ==
    /\ response.kind = "next"
    /\ "XPaymentVerified" \in DOMAIN response.headers
    /\ response.headers.XPaymentVerified = "true"

VerifierSaidValid == verifyResponse.http = "ok" /\ verifyResponse.valid

SettlerSaidSuccess == settleResponse.http = "ok" /\ settleResponse.success

PipelineRank ==
    [ Unauthenticated |-> 0, Verifying |-> 1, AmountPolicyCheck |-> 2,
      Settling |-> 3, Authorized |-> 4, PaymentRequired |-> 4,
      PassThrough |-> 4, Failed |-> 4, Served |-> 5 ]

\* C1: for a request to a protected path the pipeline Unauthenticated ->
\* Verifying -> AmountPolicyCheck -> Settling -> Authorized only moves
\* forward, and a finished request has exactly one outcome, which is an
\* HTTP 402 response or a successful forward.
C1_ForwardOnlyOneOutcome ==
    /\ [][PipelineRank[pc'] > PipelineRank[pc]]_vars
    /\ [](ProtectedRequest /\ Finished =>
             responses = 1 /\ (Is402 \/ IsAuthorizedForward))

\* C2: the Settler is called only after the Verifier answered valid: true
\* for this request; a payment the Verifier rejects (stale, underpaying,
\* tampered) is answered 402 and the Settler is not called.
C2_SettleOnlyAfterValid ==
    /\ settleCalls > 0 => verifyCalls = 1 /\ VerifierSaidValid
    /\ (verifyResponse.http # "none" /\ ~VerifierSaidValid) =>
          settleCalls = 0 /\ pc = "PaymentRequired" /\ Is402

\* C2 witness: the Settler has been called after a valid verification.
C2_Witness ==
    pc = "Settling" /\ settleCalls = 1 /\ settleRequest.sent /\ VerifierSaidValid

\* C3: the Settler is called at most once per request, also when the first
\* settlement call fails or its HTTP request errors.
C3_SettleAtMostOnce == settleCalls <= 1

\* C3 witness: a settlement whose HTTP request failed has been answered.
C3_Witness ==
    /\ settleResponse.http = "failed"
    /\ pc = "PaymentRequired"
    /\ settleCalls = 1

C5_MissingPaymentChallenge ==
    (ProtectedRequest /\ request.paymentHeader.framing = "absent") =>
        /\ pc = "PaymentRequired"
        /\ Is402
        /\ response.body.x402Version = 1
        /\ response.body.scheme = "exact"
        /\ response.body.payTo = SellerAddress
        /\ response.body.maxAmountRequired = NatToStr(PolicyAmount)
        /\ "error" \notin DOMAIN response.body
        /\ verifyCalls = 0
        /\ settleCalls = 0

\* C5 witness: the challenge for a request without payment header was sent.
C5_Witness ==
    /\ ProtectedRequest
    /\ request.paymentHeader.framing = "absent"
    /\ responses = 1

\* C6: whenever a payment header is present on a request to a protected
\* path, whatever its value, the Verifier is called for that request.
C6_HeaderPresentIsVerified ==
    (ProtectedRequest /\ request.paymentHeader.framing # "absent") =>
        verifyCalls = 1 /\ verifyRequest.sent

\* C7: the Settler is called only when the verified amount is >= the route
\* amount and the verified asset equals the policy asset, for every valid
\* verification, also one without a details record; a mismatch is answered
\* 402 (insufficient payment / invalid token) without settlement.
C7_SettlingOnlyWithinPolicy ==
    settleCalls > 0 =>
        /\ verification.details.present
        /\ ~BigInt(verification.details.amount).threw
        /\ BigInt(verification.details.amount).value >= PolicyAmount
        /\ toLowerCase(verification.details.token) =
              toLowerCase(OrElse(paymentConfigFor(request.pathname).token,
                                 env.TOKEN_ADDRESS))

\* C8: whatever the payment headers and the facilitator answers are, the
\* middleware answers 402 or forwards; it never raises (never a 5xx).
C8_NeverRaises ==
    responses > 0 => response.kind # "exception"

NoLineBreak(text) == \A i \in 1..Len(text) : text[i] # LF

Sanitized(text) == NoLineBreak(text) /\ Len(text) <= MaxErrorLength

\* C9: every error message in a 402 response, in the body or in the
\* X-402-Error header, from verification or from settlement, has no line
\* break and is at most 200 characters long.
C9_ErrorsSanitized ==
    Is402 =>
        /\ "details" \in DOMAIN response.body => Sanitized(response.body.details)
        /\ "XError" \in DOMAIN response.headers =>
              Sanitized(response.headers.XError)

IsDecimalInteger(text) ==
    Len(text) > 0 /\ \A i \in 1..Len(text) : IsDigit(text[i])

\* C10: every forwarded (Authorized) request carries the payment-verified
\* marker 'true', the verified amount as a decimal-integer string, and the
\* settlement transaction identifier the Settler returned.
C10_AuthorizedCarriesAnnotations ==
    pc \in {"Authorized", "Served"} =>
        /\ IsAuthorizedForward
        /\ IsDecimalInteger(response.headers.XPaymentAmount)
        /\ "XSettlementTx" \in DOMAIN response.headers
        /\ response.headers.XSettlementTx = settleResponse.transactionHash


\* ------------------------------------------------------------------------
\* The SDK facilitator: createPaymentHeader, verifyX402Payment and the two
\* settleX402Payment.  Addresses, networks and amounts are sequences of
\* characters because the code lower-cases or parses them; an absent field
\* is "", <<>> or 0.
\* ------------------------------------------------------------------------

DefaultMaxTimeoutSeconds == 300

MsPerSecond == 1000

\* Object.keys(POLKADOT_NETWORKS)
POLKADOT_NETWORKS ==
    { <<"p","o","l","k","a","d","o","t">>,
      <<"k","u","s","a","m","a">>,
      <<"w","e","s","t","e","n","d">>,
      <<"p","o","l","k","a","d","o","t","-","t","e","s","t","n","e","t">>,
      <<"p","o","l","k","a","d","o","t","-","h","u","b","-",
        "t","e","s","t","n","e","t">> }

WESTEND == <<"w","e","s","t","e","n","d">>
WESTEND_CAPITAL == <<"W","e","s","t","e","n","d">>
KUSAMA == <<"k","u","s","a","m","a">>
MOONBEAM == <<"m","o","o","n","b","e","a","m">>

HUB_TESTNET ==
    <<"p","o","l","k","a","d","o","t","-","h","u","b","-",
      "t","e","s","t","n","e","t">>

NetworkConfig(key) == [threw |-> FALSE, key |-> key, error |-> ""]

NetworkNotSupported(error) == [threw |-> TRUE, key |-> <<>>, error |-> error]

\* getNetworkConfig of the SDK: the configuration under the exact key, else
\* under a key equal up to case, else it throws an error that lists the
\* keys.
getNetworkConfig(networkId) ==
    IF networkId \in POLKADOT_NETWORKS
    THEN NetworkConfig(networkId)
    ELSE IF \E key \in POLKADOT_NETWORKS :
                toLowerCase(key) = toLowerCase(networkId)
    THEN NetworkConfig(CHOOSE key \in POLKADOT_NETWORKS :
                           toLowerCase(key) = toLowerCase(networkId))
    ELSE NetworkNotSupported("Network is not supported. Supported networks: polkadot, kusama, westend, polkadot-testnet, polkadot-hub-testnet")

\* TRUE when the SDK's getNetworkConfig returns a configuration.
sdkNetworkKnown(networkId) == ~getNetworkConfig(networkId).threw

\* getSupportedNetworks of the SDK: the keys of POLKADOT_NETWORKS.
getSupportedNetworks == POLKADOT_NETWORKS

\* getSupportedPayments: version 1 and scheme exact on each network.
getSupportedPayments ==
    { [x402Version |-> 1, scheme |-> "exact", network |-> network] :
          network \in getSupportedNetworks }

\* isPaymentSupported: the network is compared with === .
isPaymentSupported(x402Version, scheme, network) ==
    IF x402Version # 1 THEN FALSE
    ELSE IF scheme # "exact" THEN FALSE
    ELSE \E p \in getSupportedPayments : p.network = network

\* Object.keys(STANDARD_NETWORKS) of the application.
STANDARD_NETWORKS == {HUB_TESTNET}

\* getNetworkConfig of the application: its only network for that
\* network's identifier, and the same network for any other identifier.
libGetNetworkConfig(network) ==
    IF network = HUB_TESTNET /\ HUB_TESTNET \in STANDARD_NETWORKS
    THEN NetworkConfig(HUB_TESTNET)
    ELSE IF HUB_TESTNET \in STANDARD_NETWORKS
    THEN NetworkConfig(HUB_TESTNET)
    ELSE NetworkNotSupported("Network is not supported. Only Polkadot Hub TestNet is supported.")

\* Accounts (never transformed by the code) and recipients (lower-cased).
ALICE == "alice"
MALLORY == "mallory"
SELLER == <<"5","F","a","b">>
SELLER_OTHER_CASE == <<"5","f","A","B">>
OTHER_RECIPIENT == <<"5","D","c","d">>

WEATHER_RESOURCE == "/api/protected/weather"

\* The output of JSON.stringify in createPaymentHash, up to the constant
\* parts: two messages are equal exactly when these seven values are.
createPaymentHash_omitsNonce(from, to, amount, nonce, timestamp, network, resource) ==
    [ chainId |-> network, from |-> from, to |-> to, amount |-> amount,
      nonce |-> "", timestamp |-> timestamp,
      resource |-> OrElseStr(resource, "") ]

createPaymentHash(from, to, amount, nonce, timestamp, network, resource) ==
    [ chainId |-> network, from |-> from, to |-> to, amount |-> amount,
      nonce |-> nonce, timestamp |-> timestamp,
      resource |-> OrElseStr(resource, "") ]

NoMessage == createPaymentHash("", <<>>, <<>>, "", 0, <<>>, "")

\* An sr25519 signature is known by who made it and over which message.
sign(address, message) == [signer |-> address, message |-> message]

\* No signature field, and a signature field that is not a signature.
NoSignature == sign("", NoMessage)
GarbageSignature == sign("not-a-signature", NoMessage)

\* verifySignature: signatureVerify accepts only the signer's signature
\* over this very message; anything that throws counts as false.
verifySignature(message, signature, address) ==
    /\ signature # NoSignature
    /\ signature # GarbageSignature
    /\ signature.signer = address
    /\ signature.message = message

PaymentData(from, to, amount, nonce, timestamp, signature) ==
    [ from |-> from, to |-> to, amount |-> amount, nonce |-> nonce,
      timestamp |-> timestamp, signature |-> signature ]

EmptyPaymentData == PaymentData("", <<>>, <<>>, "", 0, NoSignature)

\* encodePaymentPayload: the hex text of the JSON text of the payload.
encodePaymentPayload(payload) ==
    [hex |-> TRUE, json |-> "object", object |-> payload]

\* The base64 text of the payload's JSON text, and likewise the JSON text
\* itself: a framing of the payload that is not a hex string.
Base64Transport(payload) ==
    [hex |-> FALSE, json |-> "object", object |-> payload]

\* Transport strings that are not the hex of a JSON object.
NotHexTransport == [hex |-> FALSE, json |-> "none", object |-> EmptyPaymentData]
NotJsonTransport == [hex |-> TRUE, json |-> "none", object |-> EmptyPaymentData]
JsonNullTransport == [hex |-> TRUE, json |-> "null", object |-> EmptyPaymentData]

\* decodePaymentPayload: null when hexToU8a or JSON.parse throws, else what
\* JSON.parse gives (which is null for the text "null").
decodePaymentPayload(payloadHex) ==
    IF payloadHex.hex /\ payloadHex.json = "object"
    THEN [null |-> FALSE, data |-> payloadHex.object]
    ELSE [null |-> TRUE, data |-> EmptyPaymentData]

Requirements(version, scheme, network, amount, resource, payTo, timeout, asset) ==
    [ x402Version |-> version, scheme |-> scheme, network |-> network,
      maxAmountRequired |-> amount, resource |-> resource, payTo |-> payTo,
      maxTimeoutSeconds |-> timeout, asset |-> asset ]

\* validatePaymentRequirements: the schema wants a positive integer
\* version and non-empty scheme and network; everything else is optional.
validatePaymentRequirements(requirements) ==
    IF requirements.x402Version < 1
    THEN [valid |-> FALSE, error |-> "x402Version: Required"]
    ELSE IF requirements.scheme = ""
    THEN [valid |-> FALSE, error |-> "scheme: Required"]
    ELSE IF requirements.network = <<>>
    THEN [valid |-> FALSE, error |-> "network: Required"]
    ELSE [valid |-> TRUE, error |-> ""]

\* The chain as the balance check and the settlement meet it: whether
\* ApiPromise.create, the account query and api.disconnect succeed, and the
\* payer's free balance.
Chain(connect, query, balance, disconnect) ==
    [ connect |-> connect, query |-> query, balance |-> balance,
      disconnect |-> disconnect ]

\* What one gate of the verifier decides: whether it returns a failure (or
\* throws, which the outer catch turns into one) and how many calls to the
\* chain it made.
GatePassed(queries) ==
    [failed |-> FALSE, threw |-> FALSE, error |-> "", queries |-> queries]

GateFailed(error, queries) ==
    [failed |-> TRUE, threw |-> FALSE, error |-> error, queries |-> queries]

GateThrew(message) ==
    [failed |-> TRUE, threw |-> TRUE, error |-> message, queries |-> 0]

requirementsGate(paymentData, requirements, now, chain) ==
    LET validation == validatePaymentRequirements(requirements)
    IN  IF ~validation.valid
        THEN GateFailed(OrElseStr(validation.error,
                                  "Invalid payment requirements"), 0)
        ELSE GatePassed(0)

versionGate(paymentData, requirements, now, chain) ==
    IF requirements.x402Version # 1
    THEN GateFailed("Unsupported x402 version. Only version 1 is supported.", 0)
    ELSE GatePassed(0)

schemeGate(paymentData, requirements, now, chain) ==
    IF requirements.scheme # "exact"
    THEN GateFailed("Unsupported payment scheme. Only 'exact' is supported.", 0)
    ELSE GatePassed(0)

networkGate(paymentData, requirements, now, chain) ==
    IF ~sdkNetworkKnown(requirements.network)
    THEN GateFailed("Unsupported network", 0)
    ELSE GatePassed(0)

decodeGate(paymentData, requirements, now, chain) ==
    IF paymentData.null
    THEN GateFailed("Invalid payload format. Could not decode payment data.", 0)
    ELSE GatePassed(0)

fieldsGate(paymentData, requirements, now, chain) ==
    IF \/ paymentData.data.from = ""
       \/ paymentData.data.to = <<>>
       \/ paymentData.data.amount = <<>>
       \/ paymentData.data.signature = NoSignature
    THEN GateFailed("Invalid payment payload. Missing required fields.", 0)
    ELSE GatePassed(0)

recipientGate(paymentData, requirements, now, chain) ==
    IF /\ requirements.payTo # <<>>
       /\ toLowerCase(paymentData.data.to) # toLowerCase(requirements.payTo)
    THEN GateFailed("Payment recipient does not match requirements.", 0)
    ELSE GatePassed(0)

amountGate_strictlyMore(paymentData, requirements, now, chain) ==
    IF requirements.maxAmountRequired # <<>>
    THEN LET paidAmount == BigInt(paymentData.data.amount)
             requiredAmount == BigInt(requirements.maxAmountRequired)
         IN  IF paidAmount.threw \/ requiredAmount.threw
             THEN GateThrew("Cannot convert to a BigInt")
             ELSE IF paidAmount.value <= requiredAmount.value
             THEN GateFailed("Payment amount is less than required", 0)
             ELSE GatePassed(0)
    ELSE GatePassed(0)

amountGate(paymentData, requirements, now, chain) ==
    IF requirements.maxAmountRequired # <<>>
    THEN LET paidAmount == BigInt(paymentData.data.amount)
             requiredAmount == BigInt(requirements.maxAmountRequired)
         IN  IF paidAmount.threw \/ requiredAmount.threw
             THEN GateThrew("Cannot convert to a BigInt")
             ELSE IF paidAmount.value < requiredAmount.value
             THEN GateFailed("Payment amount is less than required", 0)
             ELSE GatePassed(0)
    ELSE GatePassed(0)

\* The timestamp of a decoded payload that has no timestamp field or one
\* that is not a number.  The timestamps that are numbers are not negative.
NoTimestamp == -1

\* Date.now() - paymentData.timestamp: NaN for a timestamp that is undefined
\* or not a number, and every comparison with NaN is false.
millisecondsSince(timestamp, now) ==
    IF timestamp = NoTimestamp
    THEN [nan |-> TRUE, ms |-> 0]
    ELSE [nan |-> FALSE, ms |-> now - timestamp]

\* ageSeconds = (now - timestamp) / 1000 > maxTimeout, with both sides
\* multiplied by 1000.
timestampGate_expiresAtEdge(paymentData, requirements, now, chain) ==
    LET maxTimeout == IF requirements.maxTimeoutSeconds # 0
                      THEN requirements.maxTimeoutSeconds
                      ELSE DefaultMaxTimeoutSeconds
        age == millisecondsSince(paymentData.data.timestamp, now)
    IN  IF ~age.nan /\ age.ms >= maxTimeout * MsPerSecond
        THEN GateFailed("Payment timestamp is too old.", 0)
        ELSE GatePassed(0)

timestampGate(paymentData, requirements, now, chain) ==
    LET maxTimeout == IF requirements.maxTimeoutSeconds # 0
                      THEN requirements.maxTimeoutSeconds
                      ELSE DefaultMaxTimeoutSeconds
        age == millisecondsSince(paymentData.data.timestamp, now)
    IN  IF ~age.nan /\ age.ms > maxTimeout * MsPerSecond
        THEN GateFailed("Payment timestamp is too old.", 0)
        ELSE GatePassed(0)

signatureGate(paymentData, requirements, now, chain) ==
    LET paymentHash ==
            createPaymentHash(paymentData.data.from, paymentData.data.to,
                              paymentData.data.amount, paymentData.data.nonce,
                              paymentData.data.timestamp, requirements.network,
                              requirements.resource)
        isValid == verifySignature(paymentHash, paymentData.data.signature,
                                   paymentData.data.from)
    IN  IF ~isValid
        THEN GateFailed("Invalid payment signature.", 0)
        ELSE GatePassed(0)

\* The inner try of the balance check: an error of ApiPromise.create, of
\* the account query, of BigInt or of api.disconnect is caught and logged,
\* also when api.disconnect fails on the way to the insufficient-balance
\* return.
balanceGate_failsClosed(paymentData, requirements, now, chain) ==
    IF chain.connect # "ok"
    THEN GateFailed("On-chain balance verification failed", 1)
    ELSE IF chain.query # "ok"
    THEN GateFailed("On-chain balance verification failed", 2)
    ELSE LET requiredAmount == BigInt(paymentData.data.amount)
         IN  IF requiredAmount.threw THEN GatePassed(2)
             ELSE IF chain.balance < requiredAmount.value
             THEN IF chain.disconnect # "ok"
                  THEN GatePassed(2)
                  ELSE GateFailed("Insufficient balance for payment.", 2)
             ELSE GatePassed(2)

balanceGate(paymentData, requirements, now, chain) ==
    IF chain.connect # "ok" THEN GatePassed(1)
    ELSE IF chain.query # "ok" THEN GatePassed(2)
    ELSE LET requiredAmount == BigInt(paymentData.data.amount)
         IN  IF requiredAmount.threw THEN GatePassed(2)
             ELSE IF chain.balance < requiredAmount.value
             THEN IF chain.disconnect # "ok"
                  THEN GatePassed(2)
                  ELSE GateFailed("Insufficient balance for payment.", 2)
             ELSE GatePassed(2)

\* The gates in the order in which the body of verifyX402Payment has them.
GateOrder_amountBeforeRecipient ==
    << "requirements", "version", "scheme", "network", "decode", "fields",
       "amount", "recipient", "timestamp", "signature", "balance" >>

GateOrder ==
    << "requirements", "version", "scheme", "network", "decode", "fields",
       "recipient", "amount", "timestamp", "signature", "balance" >>

Gate(name, paymentData, requirements, now, chain) ==
    CASE name = "requirements" -> requirementsGate(paymentData, requirements, now, chain)
      [] name = "version"      -> versionGate(paymentData, requirements, now, chain)
      [] name = "scheme"       -> schemeGate(paymentData, requirements, now, chain)
      [] name = "network"      -> networkGate(paymentData, requirements, now, chain)
      [] name = "decode"       -> decodeGate(paymentData, requirements, now, chain)
      [] name = "fields"       -> fieldsGate(paymentData, requirements, now, chain)
      [] name = "recipient"    -> recipientGate(paymentData, requirements, now, chain)
      [] name = "amount"       -> amountGate(paymentData, requirements, now, chain)
      [] name = "timestamp"    -> timestampGate(paymentData, requirements, now, chain)
      [] name = "signature"    -> signatureGate(paymentData, requirements, now, chain)
      [] name = "balance"      -> balanceGate(paymentData, requirements, now, chain)

NoVerifiedPayment ==
    [ amount |-> <<>>, token |-> "", from |-> "", to |-> <<>>,
      nonce |-> "", timestamp |-> 0 ]

\* The body of verifyX402Payment inside its outer try: the gates one after
\* the other, returning at the first that fails.
RECURSIVE runGates(_, _, _, _, _, _)
runGates(order, evaluated, paymentData, requirements, now, chain) ==
    IF order = <<>>
    THEN [ valid |-> TRUE, error |-> "", threw |-> FALSE,
           gate |-> "none", evaluated |-> evaluated,
           chainQueries |-> Gate("balance", paymentData, requirements, now, chain).queries,
           details |->
             [ amount |-> paymentData.data.amount,
               token |-> OrElseStr(requirements.asset, "native"),
               from |-> paymentData.data.from,
               to |-> paymentData.data.to,
               nonce |-> paymentData.data.nonce,
               timestamp |-> paymentData.data.timestamp ] ]
    ELSE LET name == Head(order)
             outcome == Gate(name, paymentData, requirements, now, chain)
         IN  IF outcome.failed
             THEN [ valid |-> FALSE, error |-> outcome.error,
                    threw |-> outcome.threw, gate |-> name,
                    evaluated |-> Append(evaluated, name),
                    chainQueries |-> outcome.queries,
                    details |-> NoVerifiedPayment ]
             ELSE runGates(Tail(order), Append(evaluated, name),
                           paymentData, requirements, now, chain)

verifyBody(payload, requirements, now, chain) ==
    runGates(GateOrder, <<>>, decodePaymentPayload(payload), requirements,
             now, chain)

\* verifyX402Payment: the body, and its outer catch that turns anything
\* thrown into { valid: false, error: message }.
verifyX402Payment_noCatch(payload, requirements, now, chain) ==
    LET result == verifyBody(payload, requirements, now, chain)
    IN  [ valid |-> result.valid, error |-> result.error,
          raised |-> result.threw, gate |-> result.gate,
          evaluated |-> result.evaluated,
          chainQueries |-> result.chainQueries, details |-> result.details ]

verifyX402Payment(payload, requirements, now, chain) ==
    LET result == verifyBody(payload, requirements, now, chain)
    IN  [ valid |-> result.valid,
          error |-> result.error,
          raised |-> FALSE, gate |-> result.gate,
          evaluated |-> result.evaluated,
          chainQueries |-> result.chainQueries, details |-> result.details ]

\* generateNonce: some fresh random text.
GeneratedNonces == {"g1"}

\* createPaymentHeader: signs the payment with the signer's key and encodes
\* it.  timestamp is options.timestamp, or Date.now() when it is omitted.
createPaymentHeaderResult(signer, to, amount, nonce, generated, timestamp, requirements) ==
    LET paymentNonce == OrElseStr(nonce, generated)
        paymentHash == createPaymentHash(signer, to, amount, paymentNonce,
                                         timestamp, requirements.network,
                                         requirements.resource)
        signature == sign(signer, paymentHash)
    IN  encodePaymentPayload(
            PaymentData(signer, to, amount, paymentNonce, timestamp, signature))

\* The moment of signing and the clock readings of later verifications, in
\* milliseconds: at the default timeout, one second before and after it.
SignTime == 1000

ShortTimeoutSeconds == DefaultMaxTimeoutSeconds - 1

ClockReadings ==
    { SignTime + ShortTimeoutSeconds * MsPerSecond,
      SignTime + DefaultMaxTimeoutSeconds * MsPerSecond,
      SignTime + (DefaultMaxTimeoutSeconds + 1) * MsPerSecond }

RequiredAmount == NatToStr(PolicyAmount)

AmountBelow == NatToStr(PolicyAmount - 1)

AmountAbove == NatToStr(PolicyAmount + 1)

NotAnInteger == <<"1", ".", "5">>

\* The requirements a seller hands out: with and without a recipient.
SellerRequirements ==
    { Requirements(1, "exact", WESTEND, RequiredAmount, WEATHER_RESOURCE,
                   payTo, 0, "")
      : payTo \in {SELLER, <<>>} }

ChainStates ==
    { Chain("error", "ok", 0, "ok"), Chain("ok", "error", 0, "ok"),
      Chain("ok", "ok", 0, "ok"), Chain("ok", "ok", PolicyAmount + 1, "ok"),
      Chain("ok", "ok", 0, "error") }

createPaymentHeader(signer, to, amount, nonce, timestamp, requirements) ==
    /\ ~signedHeader.signed
    /\ \E generated \in GeneratedNonces :
         LET header == createPaymentHeaderResult(signer, to, amount, nonce,
                                                 generated, timestamp,
                                                 requirements)
         IN  /\ signedHeader' =
                   [ signed |-> TRUE, header |-> header,
                     requirements |-> requirements ]
             /\ presented' =
                   [ present |-> TRUE, payload |-> header,
                     requirements |-> requirements ]
    /\ UNCHANGED <<tampered, chainState, verifyLog, settleLog, ledger,
                   settling, gatewayVars,
                   standaloneVars>>

\* Somebody between the signer and the facilitator changes one thing in
\* what is presented and leaves the signature as it is.
tamper(field, payload, requirements) ==
    /\ presented.present
    /\ tampered = <<>>
    /\ verifyLog = <<>>
    /\ settleLog = <<>>
    /\ ~settling.active
    /\ <<payload, requirements>> # <<presented.payload, presented.requirements>>
    /\ presented' = [ present |-> TRUE, payload |-> payload,
                      requirements |-> requirements ]
    /\ tampered' = <<field>>
    /\ UNCHANGED <<signedHeader, chainState, verifyLog, settleLog, ledger,
                   settling, gatewayVars,
                   standaloneVars>>

tamperPayload(field, data) ==
    /\ presented.present
    /\ tamper(field, encodePaymentPayload(data), presented.requirements)

tamperRequirements(field, requirements) ==
    /\ presented.present
    /\ tamper(field, presented.payload, requirements)

tamperTransport(payload) ==
    /\ presented.present
    /\ tamper("transport", payload, presented.requirements)

\* A payer puts a payment together from the SDK's parts, createPaymentHash,
\* the signer and encodePaymentPayload, with a timestamp or without one.
assemblePayment(signer, to, amount, nonce, timestamp, requirements) ==
    /\ ~signedHeader.signed
    /\ LET paymentHash == createPaymentHash(signer, to, amount, nonce,
                                            timestamp, requirements.network,
                                            requirements.resource)
           header == encodePaymentPayload(
                         PaymentData(signer, to, amount, nonce, timestamp,
                                     sign(signer, paymentHash)))
       IN  /\ signedHeader' =
                 [ signed |-> TRUE, header |-> header,
                   requirements |-> requirements ]
           /\ presented' =
                 [ present |-> TRUE, payload |-> header,
                   requirements |-> requirements ]
    /\ UNCHANGED <<tampered, chainState, verifyLog, settleLog, ledger,
                   settling, gatewayVars,
                   standaloneVars>>

MaxVerifyCalls == 2

\* The chain gets unreachable, fails a query or changes the payer's balance;
\* it does so before the facilitator is called, not between two calls.
chainChanges(chain) ==
    /\ verifyLog = <<>>
    /\ settleLog = <<>>
    /\ ~settling.active
    /\ chain # chainState
    /\ chainState' = chain
    /\ UNCHANGED <<signedHeader, presented, tampered, verifyLog, settleLog,
                   ledger, settling, gatewayVars,
                   standaloneVars>>

\* A call of verifyX402Payment on what is presented, at some clock reading
\* and in the present chain state.
sdkVerify_replayCache(now) ==
    /\ presented.present
    /\ settleLog = <<>>
    /\ ~settling.active
    /\ Len(verifyLog) < MaxVerifyCalls
    /\ LET fresh == verifyX402Payment(presented.payload,
                                      presented.requirements, now, chainState)
           seen == \E i \in 1..Len(verifyLog) :
                      verifyLog[i].payload = presented.payload
           result == IF seen
                     THEN [fresh EXCEPT !.valid = FALSE,
                                        !.error = "Nonce already used",
                                        !.details = NoVerifiedPayment]
                     ELSE fresh
       IN  verifyLog' = Append(verifyLog,
               [ payload |-> presented.payload,
                 requirements |-> presented.requirements,
                 now |-> now, chain |-> chainState, result |-> result ])
    /\ UNCHANGED <<signedHeader, presented, tampered, chainState, settleLog,
                   ledger, settling, gatewayVars,
                   standaloneVars>>

sdkVerify(now) ==
    /\ presented.present
    /\ settleLog = <<>>
    /\ ~settling.active
    /\ Len(verifyLog) < MaxVerifyCalls
    /\ LET result == verifyX402Payment(presented.payload,
                                       presented.requirements, now, chainState)
       IN  verifyLog' = Append(verifyLog,
               [ payload |-> presented.payload,
                 requirements |-> presented.requirements,
                 now |-> now, chain |-> chainState, result |-> result ])
    /\ UNCHANGED <<signedHeader, presented, tampered, chainState, settleLog,
                   ledger, settling, gatewayVars,
                   standaloneVars>>

\* ---- settlement ----

\* A transfer as it is broadcast: the account that signs it, that account's
\* transaction count at the time, the recipient and the amount.
Transfer(account, nonce, to, amount) ==
    [account |-> account, nonce |-> nonce, to |-> to, amount |-> amount]

NoTransfer == Transfer("", 0, <<>>, 0)

\* The hash of a signed transaction; two transactions have the same hash
\* only if they are the same transaction.
transactionHashOf(transfer) == [hashOf |-> transfer]

NoTransactionHash == transactionHashOf(NoTransfer)

\* The number of transactions the account has sent so far.
accountNonce(account, sent) ==
    Cardinality({k \in 1..Len(sent) : sent[k].account = account})

Settled(transactionHash) ==
    [ success |-> TRUE, error |-> "", transactionHash |-> transactionHash,
      threw |-> FALSE ]

SettleFailed(error) ==
    [ success |-> FALSE, error |-> error,
      transactionHash |-> NoTransactionHash, threw |-> FALSE ]

SettleThrew(message) ==
    [ success |-> FALSE, error |-> message,
      transactionHash |-> NoTransactionHash, threw |-> TRUE ]

\* A settler's run up to its wait for the transaction: it has returned (or
\* thrown), or it has broadcast a transfer and waits.
Returned(result) ==
    [pending |-> FALSE, result |-> result, transfer |-> NoTransfer]

Broadcast(transfer) ==
    [pending |-> TRUE, result |-> SettleFailed(""), transfer |-> transfer]

\* What a settler returns to its caller: a thrown error caught by the outer
\* catch is a failure with the error's message.
Caught(result) ==
    [ success |-> result.success, error |-> result.error,
      transactionHash |-> result.transactionHash, raised |-> FALSE ]

\* The facilitator's key as the keyring takes it, and whether the node
\* accepts the signed extrinsic.
FacilitatorKeys == {"//Facilitator", "0xnothex"}

SubmitOutcomes == {"accepted", "rejected"}

FACILITATOR == "facilitator"

\* The inner catch of the SDK's settler closes the connection and rethrows;
\* when closing fails, that error is the one thrown.
sdkInnerCatch(message, chain) ==
    SettleThrew(IF chain.disconnect = "ok" THEN message ELSE "disconnect failed")

\* The body of the SDK's settleX402Payment inside its outer try, up to the
\* promise of signAndSendTransaction.  getNetworkConfig and
\* ApiPromise.create throw straight into the outer catch.  nonce is what
\* getAccountNonce reads for the facilitator's account.
sdkSettleBody(payload, requirements, facilitatorPrivateKey, chain, submit, nonce) ==
    LET validation == validatePaymentRequirements(requirements)
        paymentData == decodePaymentPayload(payload)
        amount == BigInt(paymentData.data.amount)
    IN  IF ~validation.valid
        THEN Returned(SettleFailed(OrElseStr(validation.error,
                                             "Invalid payment requirements")))
        ELSE IF requirements.x402Version # 1
        THEN Returned(SettleFailed(
                 "Unsupported x402 version. Only version 1 is supported."))
        ELSE IF requirements.scheme # "exact"
        THEN Returned(SettleFailed(
                 "Unsupported payment scheme. Only 'exact' is supported."))
        ELSE IF getNetworkConfig(requirements.network).threw
        THEN Returned(SettleThrew(getNetworkConfig(requirements.network).error))
        ELSE IF paymentData.null
        THEN Returned(SettleFailed(
                 "Invalid payload format. Could not decode payment data."))
        ELSE IF chain.connect # "ok"
        THEN Returned(SettleThrew("connection failed"))
        ELSE IF facilitatorPrivateKey = "0xnothex"
        THEN Returned(sdkInnerCatch("invalid seed", chain))
        ELSE IF amount.threw
        THEN Returned(sdkInnerCatch("Cannot convert to a BigInt", chain))
        ELSE IF chain.query # "ok"
        THEN Returned(sdkInnerCatch("query failed", chain))
        ELSE IF submit # "accepted"
        THEN Returned(sdkInnerCatch("transaction rejected", chain))
        ELSE Broadcast(Transfer(FACILITATOR, nonce, paymentData.data.to,
                                amount.value))

\* The statuses signAndSend reports for a transaction; the promise of
\* signAndSendTransaction resolves on the last two only.
TransferStatuses == {"broadcast", "retracted", "inBlock", "finalized"}

signAndSendResolves(status) == status \in {"inBlock", "finalized"}

\* The SDK's settler once signAndSendTransaction has resolved: it closes
\* the connection and returns the hash.
sdkSettleResolved(transfer, chain) ==
    IF chain.disconnect # "ok"
    THEN SettleThrew("disconnect failed")
    ELSE Settled(transactionHashOf(transfer))

\* The payload strings the application's settler tells apart: text that
\* starts with 0x, base64 of JSON, and other text; parsed is what JSON.parse
\* gives.
Authorization(from, to, amount, asset) ==
    [ present |-> TRUE, from |-> from, to |-> to, amount |-> amount,
      asset |-> asset ]

NoAuthorization ==
    [ present |-> FALSE, from |-> <<>>, to |-> <<>>, amount |-> <<>>,
      asset |-> "" ]

LibPayload(format, parsed, authorization) ==
    [format |-> format, parsed |-> parsed, authorization |-> authorization]

BUYER == <<"0","x","B","b">>

NOT_THE_BUYER == <<"0","x","C","c">>

ZERO_ADDRESS == "0x0000000000000000000000000000000000000000"

TOKEN_ADDRESS == "0xTOKEN"

LibPayloads ==
    { LibPayload("hex", "none", NoAuthorization),
      LibPayload("text", "none", NoAuthorization),
      LibPayload("base64", "null", NoAuthorization),
      LibPayload("base64", "object", NoAuthorization),
      LibPayload("base64", "object",
                 Authorization(BUYER, SELLER, NotAnInteger, "")),
      LibPayload("base64", "object",
                 Authorization(NOT_THE_BUYER, SELLER, RequiredAmount, "")),
      LibPayload("base64", "object",
                 Authorization(<<>>, SELLER, RequiredAmount, "")),
      LibPayload("base64", "object", Authorization(BUYER, SELLER, <<>>, "")) }
    \cup { LibPayload("base64", "object",
                      Authorization(toLowerCase(BUYER), to, RequiredAmount, asset))
           : to \in {<<>>, OTHER_RECIPIENT}, asset \in {"", "native"} }

\* The buyer wallet of the application: whether it can be built from the
\* environment, its balance, and whether the node accepts a transaction it
\* sends.
Wallet(available, balance, send) ==
    [available |-> available, balance |-> balance, send |-> send]

\* The SDK's settler uses no wallet.
NoWallet == Wallet(FALSE, 0, "none")

Wallets ==
    { Wallet(TRUE, PolicyAmount, "accepted"),
      Wallet(TRUE, PolicyAmount, "rejected"),
      Wallet(TRUE, PolicyAmount - 1, "accepted"),
      Wallet(FALSE, 0, "accepted") }

\* The error of the token path.
UnsupportedAsset == "ERC20 token settlement not yet implemented"

\* isNative of settleExactPayment.
isNative(requirements, authorization) ==
    \/ requirements.asset = "native"
    \/ requirements.asset = ""
    \/ authorization.asset = ZERO_ADDRESS
    \/ authorization.asset = "native"

\* The recipient of the transfer: authorization.to || requirements.payTo.
transferRecipient_ignoresPayload(authorization, requirements) ==
    requirements.payTo

transferRecipient(authorization, requirements) ==
    OrElse(authorization.to, requirements.payTo)

\* buyerBalance < amountBigInt
buyerBalanceTooLow_offByOne(buyerBalance, amountBigInt) ==
    buyerBalance < amountBigInt - 1

buyerBalanceTooLow(buyerBalance, amountBigInt) ==
    buyerBalance < amountBigInt

\* The body of settleExactPayment inside its outer try, up to the wait for
\* the receipt.  What throws inside the wallet block is returned by that
\* block's catch as a failure.
settleExactBody(payload, requirements, wallet, nonce) ==
    LET authorization == payload.authorization
        to == transferRecipient(authorization, requirements)
        amountBigInt == BigInt(authorization.amount)
    IN  IF payload.format = "hex"
        THEN Returned(SettleFailed(
                 "Invalid payload format: expected base64-encoded JSON"))
        ELSE IF payload.parsed = "none"
        THEN Returned(SettleFailed("Failed to parse payload"))
        ELSE IF payload.parsed = "null"
        THEN Returned(SettleThrew("Cannot convert undefined or null to object"))
        ELSE IF ~authorization.present
        THEN Returned(SettleFailed("Missing authorization in payload"))
        ELSE IF \/ authorization.from = <<>>
                \/ to = <<>>
                \/ authorization.amount = <<>>
        THEN Returned(SettleFailed("Missing required fields in authorization"))
        ELSE IF ~isNative(requirements, authorization)
        THEN Returned(SettleFailed(UnsupportedAsset))
        ELSE IF ~wallet.available
        THEN Returned(SettleFailed("invalid private key"))
        ELSE IF toLowerCase(authorization.from) # toLowerCase(BUYER)
        THEN Returned(SettleFailed(
                 "Authorization from address does not match buyer address"))
        ELSE IF amountBigInt.threw
        THEN Returned(SettleFailed("Cannot convert to a BigInt"))
        ELSE IF buyerBalanceTooLow(wallet.balance, amountBigInt.value)
        THEN Returned(SettleFailed("Insufficient buyer balance"))
        ELSE IF wallet.send # "accepted"
        THEN Returned(SettleFailed("transaction rejected"))
        ELSE Broadcast(Transfer("buyer", nonce, to, amountBigInt.value))

\* What txResponse.wait() gives: a receipt with a hash, no receipt, or an
\* error for a transaction that reverted.
Receipts == {"confirmed", "noReceipt", "reverted"}

\* settleExactPayment after txResponse.wait() has returned or thrown.
settleExactReceipt_successOnBroadcast(transfer, receipt) ==
    IF receipt = "reverted"
    THEN SettleFailed("transaction execution reverted")
    ELSE Settled(transactionHashOf(transfer))

settleExactReceipt(transfer, receipt) ==
    IF receipt = "reverted"
    THEN SettleFailed("transaction execution reverted")
    ELSE IF receipt # "confirmed"
    THEN SettleFailed("Transaction failed: no receipt hash")
    ELSE Settled(transactionHashOf(transfer))

\* settleExactPayment up to its wait: its outer catch returns what the
\* body throws.
settleExactPayment(payload, requirements, wallet, nonce) ==
    LET outcome == settleExactBody(payload, requirements, wallet, nonce)
    IN  [outcome EXCEPT !.result.threw = FALSE]

\* The body of the application's settleX402Payment inside its try.  The
\* application's getNetworkConfig answers for every identifier.
libSettleBody(payload, requirements, wallet, nonce) ==
    IF requirements.x402Version # 1
    THEN Returned(SettleFailed(
             "Unsupported x402 version. Only version 1 is supported."))
    ELSE IF requirements.scheme = ""
    THEN Returned(SettleFailed("Payment scheme is required."))
    ELSE IF requirements.network = <<>>
    THEN Returned(SettleFailed("Network is required."))
    ELSE IF libGetNetworkConfig(requirements.network).threw
    THEN Returned(SettleFailed("Unsupported network"))
    ELSE IF requirements.scheme = "exact"
    THEN settleExactPayment(payload, requirements, wallet, nonce)
    ELSE Returned(SettleFailed("Unsupported payment scheme"))

MaxSettleCalls == 2

\* A behaviour settles one payload with one settler, possibly several times.
SettlerFree(settler, payload) ==
    /\ presented.present
    /\ verifyLog = <<>>
    /\ ~settling.active
    /\ Len(settleLog) < MaxSettleCalls
    /\ settleLog # <<>> =>
         /\ settleLog[1].settler = settler
         /\ settleLog[1].payload = payload

SettleEntry(settler, payload, wallet, resolved, transfer, confirmation, result) ==
    [ settler |-> settler, payload |-> payload, wallet |-> wallet,
      requirements |-> presented.requirements, resolved |-> resolved,
      transfer |-> transfer, confirmation |-> confirmation,
      result |-> result ]

\* A settler runs up to its return or up to its wait for the transaction.
settleStarts(settler, payload, wallet, resolved, outcome) ==
    /\ SettlerFree(settler, payload)
    /\ IF outcome.pending
       THEN /\ ledger' = Append(ledger, outcome.transfer)
            /\ settling' = [ active |-> TRUE, settler |-> settler,
                             payload |-> payload, wallet |-> wallet,
                             resolved |-> resolved,
                             transfer |-> outcome.transfer, status |-> "ready" ]
            /\ UNCHANGED settleLog
       ELSE /\ settleLog' = Append(settleLog,
                    SettleEntry(settler, payload, wallet, resolved, NoTransfer,
                                "none", Caught(outcome.result)))
            /\ UNCHANGED <<ledger, settling>>
    /\ UNCHANGED <<signedHeader, presented, tampered, chainState, verifyLog,
                   gatewayVars,
                   standaloneVars>>

\* The waiting settler gets its answer, a status or a receipt, and returns.
settlerReturns(confirmation, result) ==
    /\ settling.active
    /\ settleLog' = Append(settleLog,
           SettleEntry(settling.settler, settling.payload, settling.wallet,
                       settling.resolved, settling.transfer, confirmation,
                       Caught(result)))
    /\ settling' = [active |-> FALSE]
    /\ UNCHANGED <<signedHeader, presented, tampered, chainState, verifyLog,
                   ledger, gatewayVars,
                   standaloneVars>>

\* A call of the SDK's settleX402Payment on what is presented.
sdkSettle(facilitatorPrivateKey, submit) ==
    /\ presented.present
    /\ settleStarts("sdk", presented.payload, NoWallet,
                    getNetworkConfig(presented.requirements.network),
                    sdkSettleBody(presented.payload, presented.requirements,
                                  facilitatorPrivateKey, chainState, submit,
                                  accountNonce(FACILITATOR, ledger)))

\* signAndSend reports a status of the SDK settler's transaction: the
\* promise resolves on in-block and finalized, and stays pending on any
\* other status.
sdkTransferStatus(status) ==
    /\ settling.active
    /\ settling.settler = "sdk"
    /\ IF signAndSendResolves(status)
       THEN settlerReturns(status,
                           sdkSettleResolved(settling.transfer, chainState))
       ELSE /\ settling' = [settling EXCEPT !.status = status]
            /\ UNCHANGED <<signedHeader, presented, tampered, chainState,
                           verifyLog, settleLog, ledger, gatewayVars,
                   standaloneVars>>

\* A call of the application's settleX402Payment under the presented
\* requirements.
libSettle_deduplicates(payload, wallet) ==
    /\ presented.present
    /\ IF \E i \in 1..Len(settleLog) :
             settleLog[i].payload = payload /\ settleLog[i].result.success
       THEN settleStarts("lib", payload, wallet,
                libGetNetworkConfig(presented.requirements.network),
                Returned(Settled(
                    settleLog[CHOOSE i \in 1..Len(settleLog) :
                                  /\ settleLog[i].payload = payload
                                  /\ settleLog[i].result.success
                             ].result.transactionHash)))
       ELSE settleStarts("lib", payload, wallet,
                libGetNetworkConfig(presented.requirements.network),
                libSettleBody(payload, presented.requirements, wallet,
                              accountNonce("buyer", ledger)))

libSettle(payload, wallet) ==
    /\ presented.present
    /\ settleStarts("lib", payload, wallet,
                    libGetNetworkConfig(presented.requirements.network),
                    libSettleBody(payload, presented.requirements, wallet,
                                  accountNonce("buyer", ledger)))

\* txResponse.wait() of the application's settler returns or throws.
libReceipt(receipt) ==
    /\ settling.active
    /\ settling.settler = "lib"
    /\ settlerReturns(receipt, settleExactReceipt(settling.transfer, receipt))

SdkNext ==
    \/ \E to \in {SELLER, OTHER_RECIPIENT},
          amount \in {AmountBelow, RequiredAmount},
          nonce \in {"", "n1"},
          requirements \in SellerRequirements :
          createPaymentHeader(ALICE, to, amount, nonce, SignTime, requirements)
    \/ /\ presented.present
       /\ LET data == presented.payload.object
              reqs == presented.requirements
          IN  \/ tamperPayload("sender", [data EXCEPT !.from = MALLORY])
              \/ \E v \in {SELLER, SELLER_OTHER_CASE, OTHER_RECIPIENT} :
                    tamperPayload("recipient", [data EXCEPT !.to = v])
              \/ \E v \in {AmountBelow, RequiredAmount, AmountAbove, NotAnInteger} :
                    tamperPayload("amount", [data EXCEPT !.amount = v])
              \/ tamperPayload("nonce", [data EXCEPT !.nonce = "n2"])
              \/ \E v \in {SignTime - MsPerSecond, SignTime + MsPerSecond} :
                    tamperPayload("timestamp", [data EXCEPT !.timestamp = v])
              \/ \E v \in {NoSignature, GarbageSignature} :
                    tamperPayload("signature", [data EXCEPT !.signature = v])
              \/ tamperRequirements("resource", [reqs EXCEPT !.resource = "/api/other"])
              \/ \E v \in {WESTEND_CAPITAL, KUSAMA, MOONBEAM} :
                    tamperRequirements("network", [reqs EXCEPT !.network = v])
              \/ tamperRequirements("asset", [reqs EXCEPT !.asset = "USDT"])
              \/ \E v \in {<<>>, AmountAbove} :
                    tamperRequirements("maxAmountRequired",
                                       [reqs EXCEPT !.maxAmountRequired = v])
              \/ tamperRequirements("maxTimeoutSeconds",
                    [reqs EXCEPT !.maxTimeoutSeconds = ShortTimeoutSeconds])
              \/ \E v \in {0, 2} :
                    tamperRequirements("x402Version", [reqs EXCEPT !.x402Version = v])
              \/ \E v \in {"", "upto"} :
                    tamperRequirements("scheme", [reqs EXCEPT !.scheme = v])
              \/ \E v \in {NotHexTransport, NotJsonTransport, JsonNullTransport,
                           Base64Transport(data)} :
                    tamperTransport(v)
    \/ \E chain \in ChainStates : chainChanges(chain)
    \/ \E now \in ClockReadings : sdkVerify(now)

SdkSpec == Init /\ [][SdkNext]_vars

\* The verifier on payments that were put together by hand.
AssembledNext ==
    \/ \E amount \in {AmountBelow, RequiredAmount},
          timestamp \in {SignTime, NoTimestamp},
          requirements \in SellerRequirements :
          assemblePayment(ALICE, SELLER, amount, "n1", timestamp, requirements)
    \/ /\ presented.present
       /\ tamperRequirements("maxTimeoutSeconds",
              [presented.requirements EXCEPT
                   !.maxTimeoutSeconds = ShortTimeoutSeconds])
    \/ \E chain \in ChainStates : chainChanges(chain)
    \/ \E now \in ClockReadings : sdkVerify(now)

AssembledSpec == Init /\ [][AssembledNext]_vars

\* The facilitator as a settler: one payment is signed, perhaps changed in
\* one of the ways a settler can trip over, and then verified or settled.
SettlerNext ==
    \/ \E requirements \in SellerRequirements :
          createPaymentHeader(ALICE, SELLER, RequiredAmount, "n1", SignTime,
                              requirements)
    \/ /\ presented.present
       /\ LET data == presented.payload.object
              reqs == presented.requirements
          IN  \/ \E v \in {WESTEND_CAPITAL, MOONBEAM} :
                    tamperRequirements("network", [reqs EXCEPT !.network = v])
              \/ \E v \in {"native", ZERO_ADDRESS, TOKEN_ADDRESS} :
                    tamperRequirements("asset", [reqs EXCEPT !.asset = v])
              \/ tamperPayload("amount", [data EXCEPT !.amount = NotAnInteger])
              \/ tamperTransport(NotHexTransport)
    \/ \E chain \in ChainStates : chainChanges(chain)
    \/ \E now \in ClockReadings : sdkVerify(now)
    \/ \E key \in FacilitatorKeys, submit \in SubmitOutcomes :
          sdkSettle(key, submit)
    \/ \E status \in TransferStatuses : sdkTransferStatus(status)
    \/ \E payload \in LibPayloads, wallet \in Wallets : libSettle(payload, wallet)
    \/ \E receipt \in Receipts : libReceipt(receipt)

SettlerSpec == Init /\ [][SettlerNext]_vars

\* Whatever is enabled is eventually done; which statuses and receipts the
\* chain delivers is left to the chain.
SettlerFairSpec == SettlerSpec /\ WF_vars(SettlerNext)

\* ---- the application's wallet and provider cache ----

MaxWalletCalls == 4

\* network || env.NETWORK: an argument left out is the configured network.
networkIdOf(network) == IF network = <<>> THEN HUB_TESTNET ELSE network

\* getProvider on the module's variables: the cached provider when there is
\* one and currentNetwork is the network asked for, a new one otherwise. The
\* configuration of the new provider is the one getNetworkConfig gives.
getProviderIn(cache, network) ==
    LET networkId == networkIdOf(network)
    IN  IF cache.provider.exists /\ cache.currentNetwork = networkId
        THEN [cache |-> cache, provider |-> cache.provider]
        ELSE LET new == Provider(networkId, cache.created + 1)
             IN  [cache |-> [cache EXCEPT !.provider = new,
                                          !.currentNetwork = networkId,
                                          !.created = @ + 1],
                  provider |-> new]

walletModuleCall(after, returned) ==
    /\ walletCache.calls < MaxWalletCalls
    /\ ~libGetNetworkConfig(returned.networkId).threw
    /\ walletCache' = [after EXCEPT !.calls = walletCache.calls + 1,
                                    !.returned = returned]
    /\ UNCHANGED <<gatewayVars, sdkVars, axios, concurrent, framing>>

getProvider(network) ==
    LET got == getProviderIn(walletCache, network)
    IN  walletModuleCall(got.cache,
            WalletReturn("getProvider", networkIdOf(network),
                         walletCache.provider, got.provider, NoEthersWallet))

getWallet(network) ==
    LET networkId == networkIdOf(network)
        got == getProviderIn(walletCache, networkId)
        after ==
            IF ~walletCache.wallet.exists
            THEN [got.cache EXCEPT
                     !.wallet = EthersWallet("FACILITATOR_PRIVATE_KEY",
                                             got.provider),
                     !.currentNetwork = networkId]
            ELSE IF networkId # walletCache.currentNetwork
            THEN [got.cache EXCEPT
                     !.wallet = EthersWallet(walletCache.wallet.key,
                                             got.provider),
                     !.currentNetwork = networkId]
            ELSE walletCache
    IN  walletModuleCall(after,
            WalletReturn("getWallet", networkId, walletCache.provider,
                         after.wallet.provider, after.wallet))

getBuyerWallet(network) ==
    LET got == getProviderIn(walletCache, networkIdOf(network))
    IN  walletModuleCall(got.cache,
            WalletReturn("getBuyerWallet", networkIdOf(network),
                         walletCache.provider, got.provider,
                         EthersWallet("BUYER_PRIVATE_KEY", got.provider)))

getSellerWallet(network) ==
    LET got == getProviderIn(walletCache, networkIdOf(network))
    IN  walletModuleCall(got.cache,
            WalletReturn("getSellerWallet", networkIdOf(network),
                         walletCache.provider, got.provider,
                         EthersWallet("SELLER_PRIVATE_KEY", got.provider)))

resetWallet ==
    /\ walletCache.calls < MaxWalletCalls
    /\ walletCache' = [walletCache EXCEPT
                          !.wallet = NoEthersWallet,
                          !.provider = NoProvider,
                          !.currentNetwork = <<>>,
                          !.calls = @ + 1,
                          !.returned = NothingReturned]
    /\ UNCHANGED <<gatewayVars, sdkVars, axios, concurrent, framing>>

\* The networks the module is asked for: none, the configured one, another.
WalletNetworks == {<<>>, HUB_TESTNET, MOONBEAM}

WalletNext ==
    \/ \E network \in WalletNetworks : getProvider(network)
    \/ \E network \in WalletNetworks : getWallet(network)
    \/ \E network \in WalletNetworks : getBuyerWallet(network)
    \/ \E network \in WalletNetworks : getSellerWallet(network)
    \/ resetWallet

WalletSpec == Init /\ [][WalletNext]_vars

\* ---- the SDK's settler, several calls at once ----

\* Call c settles a payment of c planck to the seller; every call signs with
\* the facilitator's key.
transferOf(c, nonce) == Transfer(FACILITATOR, nonce, SELLER, c)

\* What the transaction pool does with a transaction whose account and
\* nonce it already holds: it keeps the one of higher priority.
PoolChoices == {"rejects", "replaces"}

\* getAccountNonce of call c resolves: the facilitator's nonce as the chain
\* has it, the number of its transactions that are in a block.
getAccountNonce(c) ==
    /\ concurrent.calls[c].pc = "idle"
    /\ concurrent' =
          [concurrent EXCEPT
              !.calls[c] = [pc |-> "signing",
                            nonce |-> accountNonce(FACILITATOR,
                                                   concurrent.blocks)]]
    /\ UNCHANGED <<gatewayVars, sdkVars, axios, walletCache, framing>>

\* signAndSendTransaction of call c submits its transfer with the nonce the
\* call has read.  A nonce the chain has passed is refused, a nonce the pool
\* holds is refused or takes the other transaction's place; a refusal
\* rejects the promise, and the call returns success: false.
signAndSendTransaction(c, choice) ==
    LET call == concurrent.calls[c]
        same == {t \in concurrent.pool : t.nonce = call.nonce}
        others == {d \in DOMAIN concurrent.calls :
                      /\ d # c
                      /\ concurrent.calls[d].pc = "broadcast"
                      /\ concurrent.calls[d].nonce = call.nonce}
    IN  /\ call.pc = "signing"
        /\ concurrent' =
              IF call.nonce < accountNonce(FACILITATOR, concurrent.blocks)
                 \/ (same # {} /\ choice = "rejects")
              THEN [concurrent EXCEPT !.calls[c].pc = "rejected"]
              ELSE [concurrent EXCEPT
                       !.pool = (@ \ same) \cup {transferOf(c, call.nonce)},
                       !.calls = [d \in DOMAIN @ |->
                                     IF d = c
                                     THEN [@[d] EXCEPT !.pc = "broadcast"]
                                     ELSE IF d \in others
                                     THEN [@[d] EXCEPT !.pc = "usurped"]
                                     ELSE @[d]]]
        /\ UNCHANGED <<gatewayVars, sdkVars, axios, walletCache, framing>>

\* The chain puts the pool's transaction with the account's next nonce into
\* a block; the status callback of its call sees isInBlock and the call
\* returns success: true.
blockIncludes(c) ==
    LET call == concurrent.calls[c]
    IN  /\ call.pc = "broadcast"
        /\ transferOf(c, call.nonce) \in concurrent.pool
        /\ call.nonce = accountNonce(FACILITATOR, concurrent.blocks)
        /\ concurrent' =
              [concurrent EXCEPT
                  !.pool = @ \ {transferOf(c, call.nonce)},
                  !.blocks = Append(@, transferOf(c, call.nonce)),
                  !.calls[c].pc = "settled"]
        /\ UNCHANGED <<gatewayVars, sdkVars, axios, walletCache, framing>>

ConcurrentNext ==
    \/ \E c \in 1..ConcurrentCalls : getAccountNonce(c)
    \/ \E c \in 1..ConcurrentCalls, choice \in PoolChoices :
          signAndSendTransaction(c, choice)
    \/ \E c \in 1..ConcurrentCalls : blockIncludes(c)

ConcurrentSpec == Init /\ [][ConcurrentNext]_vars

\* ---- the application's verifier and settler on one payload ----

\* The shortest payload the verifier takes.
MinPayloadLength == 66

startsWith(text, prefix) ==
    /\ Len(text) >= Len(prefix)
    /\ SubSeq(text, 1, Len(prefix)) = prefix

HexDigits ==
    {"0","1","2","3","4","5","6","7","8","9",
     "a","b","c","d","e","f","A","B","C","D","E","F"}

\* /^0x[0-9a-fA-F]+$/
isHexString(text) ==
    /\ startsWith(text, <<"0","x">>)
    /\ Len(text) > 2
    /\ \A i \in 3..Len(text) : text[i] \in HexDigits

\* The verifier's gates on the payload before it looks at the scheme.
payloadGate(payload) ==
    IF payload = <<>>
    THEN "Invalid payload format."
    ELSE IF ~startsWith(payload, <<"0","x">>)
    THEN "Payload must be a hex string starting with 0x"
    ELSE ""

\* The verifier's gates on the payload of the exact scheme.
exactPayloadGate(payload) ==
    IF Len(payload) < MinPayloadLength
    THEN "Payload too short to be valid"
    ELSE IF ~isHexString(payload)
    THEN "Invalid payload format: must be valid hex string"
    ELSE ""

Verified(valid, error) == [valid |-> valid, error |-> error]

\* What createSigner and verify of the x402 package, which are not part of
\* this repository, make of a payload that passed the gates.
PackageVerdicts == {"valid", "invalid", "throws"}

\* verifyX402Payment of the application.
libVerifyX402Payment(payload, requirements, verdict) ==
    IF requirements.x402Version # 1
    THEN Verified(FALSE, "Unsupported x402 version. Only version 1 is supported.")
    ELSE IF requirements.scheme = ""
    THEN Verified(FALSE, "Payment scheme is required.")
    ELSE IF requirements.network = <<>>
    THEN Verified(FALSE, "Network is required.")
    ELSE IF libGetNetworkConfig(requirements.network).threw
    THEN Verified(FALSE, "Unsupported network")
    ELSE IF payloadGate(payload) # ""
    THEN Verified(FALSE, payloadGate(payload))
    ELSE IF requirements.scheme # "exact"
    THEN Verified(FALSE, "Unsupported payment scheme")
    ELSE IF exactPayloadGate(payload) # ""
    THEN Verified(FALSE, exactPayloadGate(payload))
    ELSE IF verdict = "valid"
    THEN Verified(TRUE, "")
    ELSE Verified(FALSE, "Payment verification failed")

\* How settleExactPayment takes a payload: a text that starts with 0x is
\* refused, one that starts with { is parsed as it is, any other is decoded
\* from base64 first.
payloadFormat(payload) ==
    IF startsWith(payload, <<"0","x">>)
    THEN "hex"
    ELSE IF startsWith(payload, <<"{">>)
    THEN "text"
    ELSE "base64"

\* A payload on its way: its text, what JSON.parse makes of the text (after
\* base64 decoding where the settler decodes) and the authorization in it.
Transport(text, parsed, authorization) ==
    [text |-> text, parsed |-> parsed, authorization |-> authorization]

HexText(digits, last) ==
    <<"0","x">> \o [i \in 1..digits |-> "a"] \o <<last>>

Transports ==
    { Transport(<<>>, "none", NoAuthorization),
      Transport(HexText(MinPayloadLength - 4, "a"), "none", NoAuthorization),
      Transport(HexText(MinPayloadLength - 3, "a"), "none", NoAuthorization),
      Transport(HexText(MinPayloadLength - 3, "g"), "none", NoAuthorization),
      Transport(<<"{","}">>, "object", NoAuthorization),
      Transport(<<"{","a","}">>, "object",
                Authorization(BUYER, SELLER, RequiredAmount, "")),
      Transport(<<"e","y","J">>, "object",
                Authorization(BUYER, SELLER, RequiredAmount, "")),
      Transport(<<"e","y","K">>, "none", NoAuthorization) }

FramingRequirements ==
    { Requirements(version, scheme, HUB_TESTNET, RequiredAmount,
                   WEATHER_RESOURCE, SELLER, 0, "")
      : version \in {1, 2}, scheme \in {"exact", "upto"} }

NotVerified == [done |-> FALSE, result |-> Verified(FALSE, "")]

NotSettled == [done |-> FALSE, outcome |-> Returned(SettleFailed(""))]

\* A payload and its requirements reach the facilitator's two endpoints.
payloadArrives(payload, requirements) ==
    /\ framing.pc = "idle"
    /\ framing' = [pc |-> "received", payload |-> payload,
                   requirements |-> requirements,
                   verify |-> NotVerified, settle |-> NotSettled]
    /\ UNCHANGED <<gatewayVars, sdkVars, axios, walletCache, concurrent>>

\* /api/facilitator/verify answers.
libVerify(verdict) ==
    /\ framing.pc = "received"
    /\ ~framing.verify.done
    /\ framing' = [framing EXCEPT
                      !.verify = [done |-> TRUE,
                                  result |-> libVerifyX402Payment(
                                                framing.payload.text,
                                                framing.requirements,
                                                verdict)]]
    /\ UNCHANGED <<gatewayVars, sdkVars, axios, walletCache, concurrent>>

\* /api/facilitator/settle takes the same payload, after the verifier or on
\* its own, and returns or broadcasts a transfer.
libSettleTakes(wallet) ==
    /\ framing.pc = "received"
    /\ ~framing.settle.done
    /\ framing' = [framing EXCEPT
                      !.settle = [done |-> TRUE,
                                  outcome |-> libSettleBody(
                                      LibPayload(
                                          payloadFormat(framing.payload.text),
                                          framing.payload.parsed,
                                          framing.payload.authorization),
                                      framing.requirements, wallet, 0)]]
    /\ UNCHANGED <<gatewayVars, sdkVars, axios, walletCache, concurrent>>

FramingNext ==
    \/ \E payload \in Transports, requirements \in FramingRequirements :
          payloadArrives(payload, requirements)
    \/ \E verdict \in PackageVerdicts : libVerify(verdict)
    \/ \E wallet \in Wallets : libSettleTakes(wallet)

FramingSpec == Init /\ [][FramingNext]_vars

\* ---- the axios response interceptor ----

StatusText(status) ==
    CASE status = 402 -> "402"
      [] status = 500 -> "500"
      [] OTHER -> "200"

\* The error axios rejects a request with: the answer had a status outside
\* 2xx, or there was no answer.
AxiosError(res) ==
    [name |-> "AxiosError",
     message |-> IF res.status = 0
                 THEN <<"Network Error">>
                 ELSE <<"Request failed with status code ",
                        StatusText(res.status)>>,
     response |-> res]

NewError(message) ==
    [name |-> "Error", message |-> message, response |-> NoAxiosResponse]

\* The catch around the payment: whatever was thrown or rejected inside
\* becomes a new Error that quotes its message.
FailedToHandle(paymentError) ==
    NewError(<<"Failed to handle x402 payment: ">> \o paymentError.message)

validateStatus(status) == status >= 200 /\ status < 300

InterceptorCallbacks ==
    {"onPaymentRequired", "onPaymentCreated", "onPaymentSettled"}

\* What the interceptor did, in the order it did it: the answers that
\* reached it, the callbacks it called, the signing and the retry.
Event(name, res, tx) == [name |-> name, response |-> res, tx |-> tx]

Called(callbacks, name, tx) ==
    IF name \in callbacks
    THEN <<Event(name, NoAxiosResponse, tx)>>
    ELSE <<>>

\* A handler settles: the request's promise when it is the handler of the
\* first answer, the awaited retry of the handler above it otherwise.
handlerSettles(a, result) ==
    [a EXCEPT !.result = result,
              !.pc = IF a.depth = 0 THEN "Done" ELSE "Returning"]

alreadyRetried_never(originalRequest) == FALSE

alreadyRetried(originalRequest) == originalRequest._retry

\* The body of the rejected-handler up to its first await.
onRejected(a, error) ==
    IF error.response.status # 402
    THEN handlerSettles(a, Rejected(error))
    ELSE IF alreadyRetried(a.originalRequest)
    THEN handlerSettles(a, Rejected(error))
    ELSE LET paymentRequirements == error.response.data
             marked == [a EXCEPT !.originalRequest._retry = TRUE]
         IN  IF ~paymentRequirements.present
                \/ paymentRequirements.network = ""
             THEN handlerSettles(marked, Rejected(NewError(
                      <<"Invalid 402 response: missing payment requirements">>)))
             ELSE LET required ==
                          [marked EXCEPT
                              !.paymentRequirements = paymentRequirements,
                              !.events = @ \o Called(a.callbacks,
                                                     "onPaymentRequired", "")]
                  IN  IF paymentRequirements.payTo = ""
                      THEN handlerSettles(required, Rejected(NewError(
                               <<"Invalid payment requirements: missing payTo address">>)))
                      ELSE [required EXCEPT
                               !.pc = "Signing",
                               !.events = @ \o <<Event("createPaymentHeader",
                                                       NoAxiosResponse, "")>>]

\* A request is made through an instance that has the interceptor; the
\* callbacks are the ones its configuration provides.
axiosRequest(callbacks) ==
    /\ axios.pc = "Idle"
    /\ axios' = [axios EXCEPT !.pc = "Sent", !.callbacks = callbacks]
    /\ UNCHANGED <<gatewayVars, sdkVars, walletCache, concurrent,
                   framing>>

\* The answer to the request in flight, the first one or a retry, goes
\* through the interceptor's two handlers.
responseArrives(res) ==
    /\ axios.pc = "Sent"
    /\ LET received == [axios EXCEPT
                           !.events = Append(@, Event("response", res,
                                  res.headers.x_settlement_tx))]
       IN  axios' = IF validateStatus(res.status)
                    THEN handlerSettles(received, Resolved(res))
                    ELSE onRejected(received, AxiosError(res))
    /\ UNCHANGED <<gatewayVars, sdkVars, walletCache, concurrent,
                   framing>>

\* createPaymentHeader settles. With a header the handler tells
\* onPaymentCreated, puts the header on the request and sends it again;
\* what the signer throws is caught.
createPaymentHeaderSettles(signed) ==
    /\ axios.pc = "Signing"
    /\ axios' =
          IF ~signed
          THEN handlerSettles(axios, Rejected(FailedToHandle(
                   NewError(<<"Failed to create payment header">>))))
          ELSE [axios EXCEPT
                   !.created = @ + 1,
                   !.events = @ \o Called(axios.callbacks,
                                          "onPaymentCreated", "")
                                \o <<Event("request", NoAxiosResponse, "")>>,
                   !.originalRequest.headers =
                       @ \cup {"X-402-Payment"}
                         \cup IF axios.paymentRequirements.resource # ""
                              THEN {"X-402-Payment-Details"}
                              ELSE {},
                   !.retries = @ + 1,
                   !.depth = @ + 1,
                   !.pc = "Sent"]
    /\ UNCHANGED <<gatewayVars, sdkVars, walletCache, concurrent,
                   framing>>

paymentSettled_withoutHash(callbacks, txHash) ==
    "onPaymentSettled" \in callbacks

paymentSettled(callbacks, txHash) ==
    txHash # "" /\ "onPaymentSettled" \in callbacks

\* The retry a handler awaits has settled: a response is looked at for the
\* settlement hash and returned, a rejection is caught.
retryReturns ==
    /\ axios.pc = "Returning"
    /\ LET a == [axios EXCEPT !.depth = @ - 1]
           txHash == axios.result.response.headers.x_settlement_tx
       IN  axios' =
              IF axios.result.kind = "resolved"
              THEN handlerSettles(
                      [a EXCEPT !.events = @ \o
                           IF paymentSettled(a.callbacks, txHash)
                           THEN <<Event("onPaymentSettled",
                                        NoAxiosResponse, txHash)>>
                           ELSE <<>>],
                      axios.result)
              ELSE handlerSettles(a, Rejected(FailedToHandle(
                                         axios.result.error)))
    /\ UNCHANGED <<gatewayVars, sdkVars, walletCache, concurrent,
                   framing>>

PAYMENT_ROUTE == "/api/weather"

\* What a server may send: success with or without a settlement hash, a
\* 402 with a body that is complete or lacks something, another failure,
\* or nothing.
AxiosResponses ==
    {AxiosResponse(200, NoResponseData, tx) : tx \in {"", "0xTX"}}
    \cup {AxiosResponse(402, data, "") :
             data \in {NoResponseData,
                       ResponseData("", "5Fab", "10", PAYMENT_ROUTE),
                       ResponseData("polkadot-hub-testnet", "", "10",
                                    PAYMENT_ROUTE),
                       ResponseData("polkadot-hub-testnet", "5Fab", "10", ""),
                       ResponseData("polkadot-hub-testnet", "5Fab", "10",
                                    PAYMENT_ROUTE)}}
    \cup {AxiosResponse(500, NoResponseData, ""), NoAxiosResponse}

InterceptorNext ==
    \/ \E callbacks \in SUBSET InterceptorCallbacks : axiosRequest(callbacks)
    \/ \E res \in AxiosResponses : responseArrives(res)
    \/ \E signed \in BOOLEAN : createPaymentHeaderSettles(signed)
    \/ retryReturns

InterceptorSpec == Init /\ [][InterceptorNext]_vars

\* ---- what the claims about the SDK speak of ----

\* The i-th call of verifyX402Payment so far.
VerifyCalls == 1..Len(verifyLog)

\* The outcome of gate name on the input of the i-th call.
GateOutcome(name, i) ==
    Gate(name, decodePaymentPayload(verifyLog[i].payload),
         verifyLog[i].requirements, verifyLog[i].now, verifyLog[i].chain)

\* The order of the gates as the specification lists it.
SpecifiedGates ==
    << "requirements", "version", "scheme", "network", "decode", "fields",
       "recipient", "amount", "timestamp", "signature", "balance" >>

\* Every specified gate other than name passes on the input of the i-th call.
OtherGatesPass(name, i) ==
    \A k \in 1..Len(SpecifiedGates) :
        SpecifiedGates[k] # name => ~GateOutcome(SpecifiedGates[k], i).failed

\* The specified gates before the k-th pass on the input of the i-th call.
EarlierGatesPass(k, i) ==
    \A j \in 1..(k - 1) : ~GateOutcome(SpecifiedGates[j], i).failed

\* C12: the verifier evaluates the gates in the specified order; a failed
\* verification carries the error of the first gate that fails in this
\* order, evaluates no gate after it and in particular queries the chain
\* only when every gate before the balance check passed.
C12_FirstFailingGateDecides ==
    \A i \in VerifyCalls :
        LET result == verifyLog[i].result
            failing == { k \in 1..Len(SpecifiedGates) :
                            GateOutcome(SpecifiedGates[k], i).failed }
        IN  IF failing = {}
            THEN result.valid /\ result.evaluated = SpecifiedGates
            ELSE LET first == CHOOSE k \in failing : \A j \in failing : k <= j
                 IN  /\ ~result.valid
                     /\ result.gate = SpecifiedGates[first]
                     /\ result.error = GateOutcome(SpecifiedGates[first], i).error
                     /\ result.evaluated = SubSeq(SpecifiedGates, 1, first)
                     /\ first < Len(SpecifiedGates) => result.chainQueries = 0

\* Two gates would fail at once and the earlier one is reported.
C12_Witness ==
    \E i \in VerifyCalls :
        /\ GateOutcome("recipient", i).failed
        /\ GateOutcome("amount", i).failed
        /\ GateOutcome("signature", i).failed
        /\ verifyLog[i].result.gate = "recipient"
        /\ verifyLog[i].result.chainQueries = 0

\* The payment data and requirements of the i-th call.
CallData(i) == decodePaymentPayload(verifyLog[i].payload).data

CallRequirements(i) == verifyLog[i].requirements

\* C13: with a required amount and every other gate passing, verification
\* succeeds exactly when the decoded amount, as an integer, is at least the
\* required amount; one below the required amount fails with the
\* insufficient-amount error.
C13_AmountMonotone ==
    \A i \in VerifyCalls :
        ( /\ IsDecimalInteger(CallRequirements(i).maxAmountRequired)
          /\ IsDecimalInteger(CallData(i).amount)
          /\ OtherGatesPass("amount", i) ) =>
            LET paid == DecimalValue(CallData(i).amount)
                required == DecimalValue(CallRequirements(i).maxAmountRequired)
            IN  /\ verifyLog[i].result.valid <=> paid >= required
                /\ paid = required - 1 =>
                     /\ verifyLog[i].result.gate = "amount"
                     /\ verifyLog[i].result.error =
                            "Payment amount is less than required"

\* A payment of exactly the required amount was verified and found valid.
C13_Witness ==
    \E i \in VerifyCalls :
        /\ IsDecimalInteger(CallRequirements(i).maxAmountRequired)
        /\ OtherGatesPass("amount", i)
        /\ CallData(i).amount = CallRequirements(i).maxAmountRequired
        /\ verifyLog[i].result.valid

\* The timeout of the i-th call in seconds and the payload's age in
\* milliseconds.
CallTimeout(i) ==
    IF CallRequirements(i).maxTimeoutSeconds # 0
    THEN CallRequirements(i).maxTimeoutSeconds
    ELSE DefaultMaxTimeoutSeconds

CallAgeMs(i) == verifyLog[i].now - CallData(i).timestamp

\* C14: a payload exactly maxTimeoutSeconds old (300 when the requirement
\* has none) passes the freshness gate; one second older it fails there
\* with the expired error.
C14_TimeoutBoundary ==
    \A i \in VerifyCalls :
        EarlierGatesPass(9, i) =>
            /\ CallAgeMs(i) = CallTimeout(i) * MsPerSecond =>
                 /\ verifyLog[i].result.gate # "timestamp"
                 /\ Len(verifyLog[i].result.evaluated) > 9
            /\ CallAgeMs(i) = (CallTimeout(i) + 1) * MsPerSecond =>
                 /\ ~verifyLog[i].result.valid
                 /\ verifyLog[i].result.gate = "timestamp"
                 /\ verifyLog[i].result.error = "Payment timestamp is too old."

\* A payload exactly 300 seconds old, under a requirement without timeout,
\* was found valid.
C14_Witness ==
    \E i \in VerifyCalls :
        /\ CallRequirements(i).maxTimeoutSeconds = 0
        /\ CallAgeMs(i) = DefaultMaxTimeoutSeconds * MsPerSecond
        /\ verifyLog[i].result.valid

\* C15: the verifier returns valid only when the payload's recipient
\* equals the requirements' recipient up to case; any other recipient
\* fails with the recipient-mismatch error.
C15_ValidOnlyForRequiredRecipient ==
    \A i \in VerifyCalls :
        LET same == toLowerCase(CallData(i).to)
                        = toLowerCase(CallRequirements(i).payTo)
        IN  /\ verifyLog[i].result.valid => same
            /\ (EarlierGatesPass(7, i) /\ ~same) =>
                 /\ ~verifyLog[i].result.valid
                 /\ verifyLog[i].result.error =
                        "Payment recipient does not match requirements."

\* The fields the specification says the signature binds.
SignedFields ==
    {"sender", "recipient", "amount", "nonce", "timestamp", "resource", "network"}

\* The header as it was signed verifies under the requirements it was
\* signed for, at the clock reading and chain state of the i-th call.
SignedHeaderVerifies(i) ==
    /\ signedHeader.signed
    /\ verifyX402Payment(signedHeader.header, signedHeader.requirements,
                         verifyLog[i].now, verifyLog[i].chain).valid

\* One of the named fields was changed after signing.
Tampered(fields) == tampered # <<>> /\ tampered[1] \in fields

C17_DomainIsolation ==
    \A i \in VerifyCalls :
        (Tampered({"network", "asset"}) /\ SignedHeaderVerifies(i)) =>
            ~verifyLog[i].result.valid

\* C18: when the chain cannot be reached or queried, a payload that passed
\* every earlier gate is still valid.
C18_BalanceCheckBestEffort ==
    \A i \in VerifyCalls :
        ( /\ EarlierGatesPass(11, i)
          /\ \/ verifyLog[i].chain.connect # "ok"
             \/ verifyLog[i].chain.query # "ok" ) =>
            /\ verifyLog[i].result.valid
            /\ verifyLog[i].result.chainQueries > 0

\* A payment was found valid although the account query failed.
C18_Witness ==
    \E i \in VerifyCalls :
        /\ EarlierGatesPass(11, i)
        /\ verifyLog[i].chain.connect = "ok"
        /\ verifyLog[i].chain.query # "ok"
        /\ verifyLog[i].result.valid

C30_InsufficientBalanceRejected ==
    \A i \in VerifyCalls :
        ( /\ EarlierGatesPass(11, i)
          /\ verifyLog[i].chain.connect = "ok"
          /\ verifyLog[i].chain.query = "ok"
          /\ IsDecimalInteger(CallData(i).amount)
          /\ verifyLog[i].chain.balance < DecimalValue(CallData(i).amount) ) =>
            /\ ~verifyLog[i].result.valid
            /\ verifyLog[i].result.error = "Insufficient balance for payment."

SettleCalls == 1..Len(settleLog)

\* The transfers on the ledger that the settlers' calls stand for.
Broadcasts == {ledger[k] : k \in 1..Len(ledger)}

\* C21: a settler does not remember what it has settled: two calls of the
\* same settler on the same payload and requirements that both succeed
\* have each broadcast a transfer of their own, and return two different
\* transaction hashes.
C21_SettlementNotIdempotent ==
    \A i \in SettleCalls : \A j \in SettleCalls :
        ( /\ i < j
          /\ settleLog[i].settler = settleLog[j].settler
          /\ settleLog[i].payload = settleLog[j].payload
          /\ settleLog[i].requirements = settleLog[j].requirements
          /\ settleLog[i].result.success
          /\ settleLog[j].result.success ) =>
            /\ settleLog[i].transfer # settleLog[j].transfer
            /\ {settleLog[i].transfer, settleLog[j].transfer} \subseteq Broadcasts
            /\ NoTransfer \notin Broadcasts
            /\ settleLog[i].result.transactionHash
                   # settleLog[j].result.transactionHash
            /\ Len(ledger) >= 2

\* The application's settler has settled the same payload twice.
C21_Witness ==
    \E i \in SettleCalls : \E j \in SettleCalls :
        /\ i < j
        /\ settleLog[i].settler = "lib"
        /\ settleLog[j].settler = "lib"
        /\ settleLog[i].payload = settleLog[j].payload
        /\ settleLog[i].result.success
        /\ settleLog[j].result.success
        /\ Len(ledger) = 2

\* The application's settler, called with this payload, requirements and
\* wallet, gets as far as comparing the buyer's balance with the amount.
LibComparesBalance(payload, requirements, wallet) ==
    /\ requirements.x402Version = 1
    /\ requirements.scheme = "exact"
    /\ requirements.network # <<>>
    /\ payload.format = "base64"
    /\ payload.parsed = "object"
    /\ payload.authorization.present
    /\ payload.authorization.from # <<>>
    /\ OrElse(payload.authorization.to, requirements.payTo) # <<>>
    /\ IsDecimalInteger(payload.authorization.amount)
    /\ isNative(requirements, payload.authorization)
    /\ wallet.available
    /\ toLowerCase(payload.authorization.from) = toLowerCase(BUYER)

\* C23: on the native path the application's settler compares the buyer's
\* balance with the amount before it sends anything: with a lower balance
\* the call fails with the insufficient-balance error and has broadcast no
\* transfer, and a call that waits for its transaction had the balance.
C23_BalanceCheckedBeforeBroadcast ==
    /\ \A i \in SettleCalls :
          ( /\ settleLog[i].settler = "lib"
            /\ LibComparesBalance(settleLog[i].payload,
                                  settleLog[i].requirements,
                                  settleLog[i].wallet)
            /\ settleLog[i].wallet.balance
                   < DecimalValue(settleLog[i].payload.authorization.amount) ) =>
              /\ ~settleLog[i].result.success
              /\ settleLog[i].result.error = "Insufficient buyer balance"
              /\ settleLog[i].transfer = NoTransfer
    /\ (settling.active /\ settling.settler = "lib") =>
          /\ settling.wallet.balance >= settling.transfer.amount
          /\ settling.transfer.amount
                 = DecimalValue(settling.payload.authorization.amount)
    /\ (\A i \in SettleCalls :
           settleLog[i].transfer = NoTransfer) /\ ~settling.active =>
          ledger = <<>>

\* The settler refused a transfer the buyer's balance does not cover, and
\* nothing was broadcast.
C23_Witness ==
    \E i \in SettleCalls :
        /\ settleLog[i].settler = "lib"
        /\ LibComparesBalance(settleLog[i].payload, settleLog[i].requirements,
                              settleLog[i].wallet)
        /\ settleLog[i].wallet.balance
               < DecimalValue(settleLog[i].payload.authorization.amount)
        /\ settleLog[i].result.error = "Insufficient buyer balance"
        /\ ledger = <<>>

\* C24: a settler reports success only for a transfer it has broadcast and
\* for which the chain has answered: the application's settler after a
\* receipt that carries a hash, the SDK's after an in-block or finalized
\* status; the hash returned is that transaction's.  No receipt, or a
\* receipt without a hash, is a failure.
C24_SuccessOnlyAfterReceipt ==
    \A i \in SettleCalls :
        /\ settleLog[i].result.success =>
              /\ settleLog[i].transfer # NoTransfer
              /\ settleLog[i].transfer \in Broadcasts
              /\ settleLog[i].result.transactionHash
                     = transactionHashOf(settleLog[i].transfer)
              /\ settleLog[i].settler = "lib" =>
                     settleLog[i].confirmation = "confirmed"
              /\ settleLog[i].settler = "sdk" =>
                     settleLog[i].confirmation \in {"inBlock", "finalized"}
        /\ settleLog[i].confirmation = "noReceipt" =>
              /\ ~settleLog[i].result.success
              /\ settleLog[i].result.transactionHash = NoTransactionHash

\* The application's settler broadcast a transfer, got no receipt for it
\* and returned a failure.
C24_Witness ==
    \E i \in SettleCalls :
        /\ settleLog[i].settler = "lib"
        /\ settleLog[i].transfer \in Broadcasts
        /\ settleLog[i].confirmation = "noReceipt"
        /\ ~settleLog[i].result.success

\* C25: a settler that has broadcast a transfer and waits for it always
\* returns in the end, also when the chain never includes the transaction.
C25_SettleTerminates ==
    [](settling.active => <>(~settling.active))

\* The application's settler, called with this payload and requirements,
\* gets as far as choosing between the native and the token path.
LibChoosesPath(payload, requirements) ==
    /\ requirements.x402Version = 1
    /\ requirements.scheme = "exact"
    /\ requirements.network # <<>>
    /\ payload.format = "base64"
    /\ payload.parsed = "object"
    /\ payload.authorization.present
    /\ payload.authorization.from # <<>>
    /\ OrElse(payload.authorization.to, requirements.payTo) # <<>>
    /\ payload.authorization.amount # <<>>

\* C26: the requirements' asset alone chooses the path of the application's
\* settler: 'native' and the zero address take the native path, and any
\* other asset that is present fails with the unsupported-asset error and
\* broadcasts nothing, whatever asset the authorization names.
C26_AssetRouting ==
    \A i \in SettleCalls :
        ( /\ settleLog[i].settler = "lib"
          /\ LibChoosesPath(settleLog[i].payload, settleLog[i].requirements) ) =>
            /\ settleLog[i].requirements.asset \in {"native", ZERO_ADDRESS} =>
                   settleLog[i].result.error # UnsupportedAsset
            /\ settleLog[i].requirements.asset
                   \notin {"", "native", ZERO_ADDRESS} =>
                   /\ settleLog[i].result.error = UnsupportedAsset
                   /\ settleLog[i].transfer = NoTransfer

\* The application's settler, called with this payload and requirements,
\* gets as far as reading the authorization's fields.
LibReadsAuthorization(payload, requirements) ==
    /\ requirements.x402Version = 1
    /\ requirements.scheme = "exact"
    /\ requirements.network # <<>>
    /\ payload.format = "base64"
    /\ payload.parsed = "object"
    /\ payload.authorization.present

\* The recipient the claim names: the payload's, else the requirements'.
ClaimedRecipient(payload, requirements) ==
    IF payload.authorization.to # <<>>
    THEN payload.authorization.to
    ELSE requirements.payTo

\* C27: the transfer the application's settler broadcasts carries the
\* authorization's amount as an integer and goes to the authorization's
\* recipient, or to the requirements' payTo when the authorization has no
\* recipient; with the sender, the recipient (after the fallback) or the
\* amount missing the call fails and broadcasts nothing.
C27_TransferAmountAndRecipient ==
    /\ \A i \in SettleCalls :
          settleLog[i].settler = "lib" =>
            /\ settleLog[i].transfer # NoTransfer =>
                  /\ settleLog[i].transfer.amount
                       = DecimalValue(settleLog[i].payload.authorization.amount)
                  /\ IsDecimalInteger(settleLog[i].payload.authorization.amount)
                  /\ settleLog[i].transfer.to
                       = ClaimedRecipient(settleLog[i].payload,
                                          settleLog[i].requirements)
                  /\ settleLog[i].transfer.to # <<>>
            /\ ( /\ LibReadsAuthorization(settleLog[i].payload,
                                          settleLog[i].requirements)
                 /\ \/ settleLog[i].payload.authorization.from = <<>>
                    \/ settleLog[i].payload.authorization.amount = <<>>
                    \/ ClaimedRecipient(settleLog[i].payload,
                                        settleLog[i].requirements) = <<>> ) =>
                  /\ ~settleLog[i].result.success
                  /\ settleLog[i].result.error
                       = "Missing required fields in authorization"
                  /\ settleLog[i].transfer = NoTransfer
    /\ (settling.active /\ settling.settler = "lib") =>
          /\ settling.transfer.amount
               = DecimalValue(settling.payload.authorization.amount)
          /\ settling.transfer.to
               = ClaimedRecipient(settling.payload, presented.requirements)
          /\ settling.transfer.to # <<>>

\* An authorization without a recipient was settled by a transfer of its
\* amount to the requirements' payTo.
C27_Witness ==
    \E i \in SettleCalls :
        /\ settleLog[i].settler = "lib"
        /\ settleLog[i].result.success
        /\ settleLog[i].payload.authorization.to = <<>>
        /\ settleLog[i].requirements.payTo = SELLER
        /\ settleLog[i].transfer.to = SELLER
        /\ settleLog[i].transfer.amount = PolicyAmount
        /\ settleLog[i].transfer \in Broadcasts

\* The keys of the registry a settler resolves networks in.
RegistryOf(settler) ==
    IF settler = "sdk" THEN POLKADOT_NETWORKS ELSE STANDARD_NETWORKS

\* C28: what getNetworkConfig gives a settler for the requirements' network
\* is the configuration under that identifier (exactly, else up to case),
\* or an error listing the supported networks when no key matches; it is
\* never another network's configuration, and no settlement succeeds under
\* requirements that name an unknown network.
C28_RegistryResolve ==
    \A i \in SettleCalls :
        LET entry == settleLog[i]
            identifier == entry.requirements.network
            keys == RegistryOf(entry.settler)
            known == \E key \in keys : toLowerCase(key) = toLowerCase(identifier)
        IN  identifier # <<>> =>
              /\ identifier \in keys => entry.resolved.key = identifier
              /\ known =>
                   /\ ~entry.resolved.threw
                   /\ entry.resolved.key \in keys
                   /\ toLowerCase(entry.resolved.key) = toLowerCase(identifier)
              /\ ~known =>
                   /\ entry.resolved.threw
                   /\ entry.resolved.error # ""
                   /\ ~entry.result.success
                   /\ entry.transfer = NoTransfer

\* C29: decodePaymentPayload gives back, field by field, the payload that
\* encodePaymentPayload was given, and every transport text that frames a
\* payload (as hex, as base64 of JSON or as JSON) decodes to that payload.
C29_CodecRoundTrip ==
    /\ signedHeader.signed =>
          decodePaymentPayload(encodePaymentPayload(signedHeader.header.object))
            = [null |-> FALSE, data |-> signedHeader.header.object]
    /\ \A i \in VerifyCalls :
          verifyLog[i].payload.json = "object" =>
            /\ ~decodePaymentPayload(verifyLog[i].payload).null
            /\ decodePaymentPayload(verifyLog[i].payload).data
                 = verifyLog[i].payload.object
            /\ verifyLog[i].result.error
                 # "Invalid payload format. Could not decode payment data."

C34_ValidOnlyWithFreshTimestamp ==
    \A i \in VerifyCalls :
        /\ verifyLog[i].result.valid =>
              /\ CallData(i).timestamp # NoTimestamp
              /\ CallAgeMs(i) <= CallTimeout(i) * MsPerSecond
        /\ (EarlierGatesPass(9, i) /\ CallData(i).timestamp = NoTimestamp) =>
              /\ ~verifyLog[i].result.valid
              /\ verifyLog[i].result.gate = "timestamp"

\* C37: isPaymentSupported says true for exactly the version, scheme and
\* network under which the verifier passes its version, scheme and network
\* gates.
C37_SupportedAgreesWithVerifier ==
    \A i \in VerifyCalls :
        isPaymentSupported(CallRequirements(i).x402Version,
                           CallRequirements(i).scheme,
                           CallRequirements(i).network)
          <=> /\ ~GateOutcome("version", i).failed
              /\ ~GateOutcome("scheme", i).failed
              /\ ~GateOutcome("network", i).failed

\* ---- what the claims about the interceptor speak of ----

\* Where in the interceptor's record something of this name stands.
EventsNamed(name) ==
    {i \in DOMAIN axios.events : axios.events[i].name = name}

\* The answers that reached the interceptor, the first one first.
Answers == EventsNamed("response")

\* The answer to the retry was a 402 again.
RetryAnswered402 ==
    \E i \in Answers, j \in EventsNamed("request") :
        j < i /\ axios.events[i].response.status = 402

\* C31: the interceptor retries a request at most once: at most one payment
\* header is created and at most one retry is sent for a request; a 402 in
\* answer to the retry is rejected without another signature, so the
\* request's promise rejects; an answer with a failure status other than
\* 402 is rejected with the error it came with, and nothing is signed.
C31_RetriesAtMostOnce ==
    [][LET answer == axios'.events[Len(axios.events) + 1].response
           answered == axios.pc = "Sent" /\ axios' # axios
       IN  /\ axios'.created <= 1
           /\ axios'.retries <= 1
           /\ answered /\ answer.status = 402 /\ axios.depth > 0
                 => /\ axios'.pc = "Returning"
                    /\ axios'.result = Rejected(AxiosError(answer))
                    /\ axios'.created = axios.created
           /\ answered /\ ~validateStatus(answer.status)
                       /\ answer.status # 402
                 => /\ axios'.pc \in {"Done", "Returning"}
                    /\ axios'.result = Rejected(AxiosError(answer))
                    /\ axios'.created = axios.created
           /\ axios'.pc = "Done"
                 /\ (\E i, j \in DOMAIN axios'.events :
                        /\ j < i
                        /\ axios'.events[j].name = "request"
                        /\ axios'.events[i].name = "response"
                        /\ axios'.events[i].response.status = 402)
                 => axios'.result.kind = "rejected"]_vars

\* A request was paid for once, the retry was answered 402 and the promise
\* is rejected.
C31_Witness ==
    /\ axios.pc = "Done"
    /\ axios.created = 1
    /\ axios.retries = 1
    /\ RetryAnswered402
    /\ axios.result.kind = "rejected"

\* The first answer was a 402 whose body has no network or no payTo.
IncompleteChallenge ==
    /\ axios.events # <<>>
    /\ LET first == axios.events[1].response
       IN  /\ first.status = 402
           /\ \/ ~first.data.present
              \/ first.data.network = ""
              \/ first.data.payTo = ""

\* C32: for one handled 402, onPaymentRequired is called before the payment
\* is signed, onPaymentCreated after the header was created and right before
\* the retry is sent, and onPaymentSettled only right after the retry was
\* answered with success and an x-settlement-tx header; a 402 whose body
\* lacks network or payTo leads to no signature, no retry and no call of
\* onPaymentCreated or onPaymentSettled.
C32_EventOrder ==
    /\ \A i \in EventsNamed("createPaymentHeader") :
          "onPaymentRequired" \in axios.callbacks
             => i > 1 /\ axios.events[i - 1].name = "onPaymentRequired"
    /\ \A i \in EventsNamed("onPaymentRequired") :
          \A j \in EventsNamed("createPaymentHeader") : i < j
    /\ \A i \in EventsNamed("onPaymentCreated") :
          /\ axios.created > 0
          /\ \E j \in EventsNamed("createPaymentHeader") : j < i
          /\ i < Len(axios.events) /\ axios.events[i + 1].name = "request"
          /\ \A j \in EventsNamed("request") : i < j
    /\ \A j \in EventsNamed("request") :
          "onPaymentCreated" \in axios.callbacks
             => j > 1 /\ axios.events[j - 1].name = "onPaymentCreated"
    /\ \A i \in EventsNamed("onPaymentSettled") :
          /\ i > 1
          /\ axios.events[i - 1].name = "response"
          /\ validateStatus(axios.events[i - 1].response.status)
          /\ axios.events[i - 1].response.headers.x_settlement_tx # ""
          /\ axios.events[i].tx
                = axios.events[i - 1].response.headers.x_settlement_tx
          /\ \E j \in EventsNamed("request") : j < i - 1
    /\ IncompleteChallenge
          => /\ axios.created = 0
             /\ axios.retries = 0
             /\ EventsNamed("createPaymentHeader") = {}
             /\ EventsNamed("request") = {}
             /\ EventsNamed("onPaymentCreated") = {}
             /\ EventsNamed("onPaymentSettled") = {}

\* All three callbacks were called for one paid request.
C32_Witness ==
    /\ axios.pc = "Done"
    /\ EventsNamed("onPaymentRequired") # {}
    /\ EventsNamed("onPaymentCreated") # {}
    /\ EventsNamed("onPaymentSettled") # {}
    /\ axios.result.kind = "resolved"

\* C36: after any calls of the wallet module, the wallet getWallet(n)
\* returns is connected to a provider created for network n, and
\* getProvider(n) returns a provider created for n, which is the cached one
\* exactly when the provider cached before was created for n.
C36_WalletCacheInvariant ==
    LET r == walletCache.returned
    IN  /\ r.by = "getWallet"
              => /\ r.wallet.exists
                 /\ r.wallet.provider.exists
                 /\ r.wallet.provider.createdFor = r.networkId
        /\ r.by = "getProvider"
              => /\ r.provider.exists
                 /\ r.provider.createdFor = r.networkId
                 /\ r.provider = r.previous
                       <=> (r.previous.exists
                            /\ r.previous.createdFor = r.networkId)

\* C33: whenever a request is forwarded as Authorized, the recipient the
\* Verifier and the Settler were given for it is the configured seller
\* address, whatever payTo the client wrote into its payment header or into
\* the X-402-Payment-Details header.
C33_PaidToConfiguredSeller ==
    pc \in {"Authorized", "Served"} =>
        /\ verifyRequest.sent
        /\ verifyRequest.details.payTo = getSellerAddress(env.NETWORK)
        /\ settleRequest.sent
        /\ settleRequest.details.payTo = getSellerAddress(env.NETWORK)

\* C35: when calls of the SDK's settler that sign with the same
\* facilitator key run at once, the transfers they broadcast carry distinct
\* account nonces, and no call is refused or has its transfer replaced
\* because of another.
C35_DistinctNonces ==
    LET sent == {c \in DOMAIN concurrent.calls :
                    concurrent.calls[c].pc \in {"broadcast", "settled",
                                                "rejected", "usurped"}}
    IN  /\ \A c, d \in sent :
              c # d => concurrent.calls[c].nonce # concurrent.calls[d].nonce
        /\ \A c \in sent : concurrent.calls[c].pc \in {"broadcast", "settled"}

\* The settler's two refusals of a payload for its framing.
SettlerRefusesFraming ==
    /\ framing.settle.done
    /\ ~framing.settle.outcome.pending
    /\ framing.settle.outcome.result.error
          \in {"Invalid payload format: expected base64-encoded JSON",
               "Failed to parse payload"}

\* C38: a payload that passes the format gates of the application's
\* verifier is never refused by the application's settler for its framing.
C38_SameFramings ==
    (/\ framing.pc = "received"
     /\ payloadGate(framing.payload.text) = ""
     /\ exactPayloadGate(framing.payload.text) = "")
        => ~SettlerRefusesFraming

\* C11: when the payment verified, met the policy and settled, the request
\* is forwarded so that the protected handler observes the payment-verified
\* marker as true and answers 200; the handler answers 402 for a request on
\* which it does not observe the marker.
C11_HappyPathServed ==
    (downstream.received /\ downstream.status # 400) =>
        /\ IsAuthorizedForward =>
              downstream.paymentVerified = "true" /\ downstream.status = 200
        /\ downstream.paymentVerified # "true" => downstream.status = 402

====
